---- MODULE Spec2Model ----
(***************************************************************************)
(* Model of the software-engineer pipeline (runPipeline), its stages, the  *)
(* agent process adapter (runClaude) and the two analyzers, as a state     *)
(* machine whose steps are the event handlers of the Node.js host: the     *)
(* entry into runPipeline, the 'close' and 'error' events of the agent     *)
(* subprocess, and the SIGINT / SIGTERM handlers.  Everything the host     *)
(* does between two awaits on a subprocess runs without interruption, so   *)
(* each handler is one action that runs the pipeline up to the next spawn. *)
(***************************************************************************)
EXTENDS Integers, Sequences, FiniteSets, TLC

\* ------------------------------------------------------------------ bounds
\* --reviews values 0..MaxConfigReviews are drawn for a configuration
MaxConfigReviews == 4
\* agent exit codes 0..MaxExitCode are drawn, plus the interrupt code
MaxExitCode == 3
\* REVIEW_ITERATIONS values 0..MaxRawIterations are drawn for the analyzer reply
MaxRawIterations == 4
\* runPipeline invocations in one process
MaxRuns == 2
\* SF_ variables set in the environment of one command line
MaxEnvVars == 2
\* options given on one command line
MaxOptions == 2
\* lines the agent writes to stdout in one invocation
MaxStreamLines == 3
\* the suggested name and its numbered variants 1..MaxTaken may be taken
MaxTaken == 5
\* characters in a name handed to createBranch
MaxNameLength == 3

\* --------------------------------------------------------- program constants
EXIT_CODE_FAILURE == 1
EXIT_CODE_INTERRUPT == 130
EXIT_SUCCESS == 0
EXIT_INTERRUPTED == 130
MIN_REVIEW_ITERATIONS == 1
MAX_REVIEW_ITERATIONS == 3
DEFAULT_REVIEW_ITERATIONS == 2
MAX_DESCRIPTION_LENGTH == 40

\* exitCode is null when the subprocess was killed by a signal
NullExitCode == -1
\* the host process has not exited
Alive == -1

AgentExitCodes == (0..MaxExitCode) \cup {EXIT_INTERRUPTED}

\* --------------------------------------------------------------------- text
\* A string that the code takes apart is the sequence of its characters.
LowerCaseLetters ==
  << "a", "b", "c", "d", "e", "f", "g", "h", "i", "j", "k", "l", "m",
     "n", "o", "p", "q", "r", "s", "t", "u", "v", "w", "x", "y", "z" >>

UpperCaseLetters ==
  << "A", "B", "C", "D", "E", "F", "G", "H", "I", "J", "K", "L", "M",
     "N", "O", "P", "Q", "R", "S", "T", "U", "V", "W", "X", "Y", "Z" >>

DecimalDigits == << "0", "1", "2", "3", "4", "5", "6", "7", "8", "9" >>

Range(seq) == {seq[k] : k \in DOMAIN seq}

\* the characters \s matches, of those drawn
WhiteSpace == {" ", "\t", "\n"}

toLowerCaseChar(c) ==
  IF c \in Range(UpperCaseLetters)
    THEN LowerCaseLetters[CHOOSE k \in DOMAIN UpperCaseLetters : UpperCaseLetters[k] = c]
    ELSE c

\* String.prototype.toLowerCase
toLowerCase(str) == [k \in DOMAIN str |-> toLowerCaseChar(str[k])]

\* String.prototype.trim
trimString(str) ==
  LET inked == {k \in DOMAIN str : str[k] \notin WhiteSpace}
      first == CHOOSE k \in inked : \A j \in inked : k <= j
      last == CHOOSE k \in inked : \A j \in inked : j <= k
  IN IF inked = {} THEN << >> ELSE SubSeq(str, first, last)

\* String.prototype.substring(0, end)
substring0(str, end) == SubSeq(str, 1, IF Len(str) < end THEN Len(str) ELSE end)

RECURSIVE String(_)
\* the decimal digits of a natural number, as a template literal writes it
String(n) ==
  IF n < 10 THEN << DecimalDigits[n + 1] >>
  ELSE String(n \div 10) \o << DecimalDigits[(n % 10) + 1] >>

\* the ChangeType literals, and the default short description
feature == << "f", "e", "a", "t", "u", "r", "e" >>
fix == << "f", "i", "x" >>
refactor == << "r", "e", "f", "a", "c", "t", "o", "r" >>
docs == << "d", "o", "c", "s" >>
chore == << "c", "h", "o", "r", "e" >>
trivial == << "t", "r", "i", "v", "i", "a", "l" >>
changes == << "c", "h", "a", "n", "g", "e", "s" >>

ChangeTypes == {feature, fix, refactor, docs, chore, trivial}

\* ------------------------------------------------------------ configuration
Config ==
  [ reviewIterations : 0..MaxConfigReviews,
    dryRun : BOOLEAN,
    skipTests : BOOLEAN,
    skipBranchManagement : BOOLEAN,
    adaptiveExecution : BOOLEAN,
    implementationOnly : BOOLEAN ]

NoConfig ==
  [ reviewIterations |-> 1, dryRun |-> FALSE, skipTests |-> FALSE,
    skipBranchManagement |-> FALSE, adaptiveExecution |-> FALSE,
    implementationOnly |-> FALSE ]

\* ------------------------------------------------------- step recommendation
ReviewDepths == {"minimal", "standard", "thorough"}

\* rec === null / undefined in runPipeline
NoRec ==
  [ present |-> FALSE, skipSimplify |-> FALSE, skipReview |-> FALSE,
    skipSolid |-> FALSE, skipTests |-> FALSE, skipChangelog |-> FALSE,
    reviewDepth |-> "standard", reviewIterations |-> 0, reasoning |-> "" ]

DEFAULT_STEP_RECOMMENDATION ==
  [ present |-> TRUE, skipSimplify |-> FALSE, skipReview |-> FALSE,
    skipSolid |-> FALSE, skipTests |-> FALSE, skipChangelog |-> FALSE,
    reviewDepth |-> "standard", reviewIterations |-> DEFAULT_REVIEW_ITERATIONS,
    reasoning |-> "Default configuration - standard pipeline execution" ]

\* The analyzer's reply text, by the fields the parser looks for.  "" is a
\* label that is absent or whose value does not match the field's pattern;
\* iterations = NoIterations stands for an absent REVIEW_ITERATIONS label.
NoIterations == -1
AdaptiveReplies ==
  [ empty : {FALSE},
    skipSimplify : {"true", "false", ""},
    skipReview : {"true", "false", ""},
    skipSolid : {"true", "false", ""},
    skipTests : {"true", "false", ""},
    skipChangelog : {"true", "false", ""},
    reviewDepth : ReviewDepths \cup {""},
    iterations : {NoIterations} \cup (0..MaxRawIterations),
    reasoning : {"", "Small isolated change"} ]


\* The analyzer subprocess printed nothing.
EmptyAdaptiveReply ==
  [ empty |-> TRUE, skipSimplify |-> "", skipReview |-> "", skipSolid |-> "",
    skipTests |-> "", skipChangelog |-> "", reviewDepth |-> "",
    iterations |-> NoIterations, reasoning |-> "" ]

\* The text after the SHORT_DESC label of the classifier's reply; << >> is an
\* absent label.
AddUserAuthentication ==
  << "a", "d", "d", "-", "u", "s", "e", "r", "-", "a", "u", "t", "h", "e", "n",
     "t", "i", "c", "a", "t", "i", "o", "n" >>

ShortDescTexts ==
  { << >>,
    AddUserAuthentication,
    << "A", "d", "d", " ", "U", "s", "e", "r", " ", "\t", "A", "u", "t", "h", "!" >>,
    << "f", "i", "x", ";", " ", "r", "m", " ", "-", "r", "f", " " >>,
    << "!", "!", "!" >>,
    AddUserAuthentication \o << " " >> \o AddUserAuthentication }

\* The classifier's reply, by the labels the parser looks for.  << >> and ""
\* are a label that is absent or whose value does not match its pattern.
AnalysisReplies ==
  [ changeType : {<< >>, fix, docs, trivial},
    isTrivial : {"true", "false", ""},
    shortDesc : ShortDescTexts ]

\* The classifier's replies drawn for the branch stage on its own.
BranchAnalysisReplies ==
  { r \in AnalysisReplies :
      /\ r.changeType = << >>
      /\ r.isTrivial # ""
      /\ r.shortDesc \in {<< >>, AddUserAuthentication} }

\* The classifier's replies drawn for a run of the whole pipeline.
RunAnalysisReplies ==
  { r \in BranchAnalysisReplies : r.shortDesc = AddUserAuthentication }

\* a line of 'git branch --list' for a branch that is not checked out
localLine(name) == << " ", " " >> \o name

\* the names the classifier can suggest in a run of the pipeline, all taken
TakenLines ==
  { localLine(feature \o << "/" >> \o desc) :
      desc \in { changes, AddUserAuthentication,
                 << "d", "r", "y", "-", "r", "u", "n", "-" >> \o changes } }

\* What the git commands of one pass through the branch stage answer: the
\* current branch, the lines of 'git branch --list' and 'git branch -r', and
\* whether 'git checkout -b' succeeds.  In a run of the whole pipeline no
\* branch is taken.
GitEnv ==
  [ currentBranch : { << "m", "a", "i", "n" >>, << "t", "o", "p", "i", "c" >> },
    localLines : { {} },
    remoteLines : { {} },
    checkoutOk : BOOLEAN ]

\* The answers drawn for the branch stage on its own.
BranchGitEnv ==
  [ currentBranch : { << "m", "a", "i", "n" >>, << "m", "a", "s", "t", "e", "r" >>,
                      << "d", "e", "v", "e", "l", "o", "p" >>, << "d", "e", "v" >>,
                      << "M", "a", "i", "n" >>, << "t", "o", "p", "i", "c" >>,
                      << "d", "e", "v", "e", "l" >> },
    localLines : { {}, TakenLines },
    remoteLines : { {} },
    checkoutOk : BOOLEAN ]

\* The agent's final text in a review round.
Replies == {"No issues found", "LGTM", "Fixed two bugs"}

RunClaudeStages ==
  {"implement", "simplify", "review", "solid", "test", "commit", "changelog"}

\* analysis === null in the branch stage's result
NoAnalysis ==
  [ changeType |-> << >>, isTrivial |-> FALSE, suggestedBranchName |-> << >>,
    branchPrefix |-> << >>, shortDescription |-> << >> ]

\* no subprocess has terminated yet in this run
NoExit ==
  [ caller |-> "none", stage |-> "none", iter |-> 0, kind |-> "none",
    code |-> NullExitCode, reply |-> "" ]

\* ------------------------------------------------------------------- state
VARIABLES
  config,                   \* the Config of the current run
  pc,                       \* "idle", the stage whose subprocess is awaited, "completed", "exited"
  child,                    \* "none" or "running": the agent subprocess
  exitStatus,               \* Alive, or the status the host exited with
  signalHandlersRegistered, \* pipeline.ts module variable
  listeners,                \* number of listeners registered per signal
  runs,                     \* runPipeline invocations so far
  signalsHandled,           \* signal listener bodies that have run
  adaptiveAnalysis,         \* stepBranchManagement's local adaptiveAnalysis?.stepRecommendation
  rec,                      \* runPipeline's local rec
  reviewIterations,         \* runPipeline's local reviewIterations (0 before the loop)
  i,                        \* the review loop's counter
  branchCreated,            \* the branch stage result's branchCreated
  started,                  \* stage functions called in this run, in order
  lastExit,                 \* the most recent subprocess termination of this run
  results,                  \* stage results returned to runPipeline in this run
  skipped,                  \* stages runPipeline skipped in this run
  completionShown,          \* displayCompletionMessage was reached in this run
  skipTestsReason,          \* the reason logged at step 7 ("null": none)
  uncommittedWarning,       \* the completion message warned of uncommitted changes
  gitCommandsRun,           \* a git command was executed in this run
  agents,                   \* agent subprocesses spawned by this run and not yet ended
  currentBranch,            \* stepBranchManagement's gitState.currentBranch
  analysis,                 \* the branch stage result's analysis
  branchName,               \* the branch stage result's branchName
  createBranchCalls,        \* the createBranch calls of this run
  branchProbes,             \* the names this run asked branchExists about
  parseInput,               \* the output handed to parseAdaptiveResponse
  parsed,                   \* what parseAdaptiveResponse returned for it
  streamText,               \* the bytes the agent writes to stdout in one invocation
  pending,                  \* the bytes of streamText not yet delivered
  outputBuffer,             \* runClaude's local outputBuffer
  lastPrintedMessage,       \* claude.ts module variable
  lastPrintedAtSpawn,       \* lastPrintedMessage when the invocation began
  printed,                  \* what the invocation wrote to the console
  handed,                   \* the lines handed to processStreamEvent
  streamResult,             \* the close event's exit code and what runClaude did with it
  analyzerCall,             \* an analyzer's subprocess event: how it ended, what it printed
  resolved,                 \* what the analyzer's promise resolved with
  env,                      \* process.env, by the variables the program reads
  argv,                     \* the options given on the command line
  merged,                   \* the Config mergeConfig returned
  args,                     \* the argument list of the latest agent invocation
  gitCall,                  \* a call of a git utility: the function and its inputs
  gitOutcome,               \* what the call returned and did
  interactiveRun,           \* a run of the interactive pipeline
  ptyAdapter                \* the PTY-based adapter and the host's terminal

vars ==
  << config, pc, child, exitStatus, signalHandlersRegistered, listeners, runs,
     signalsHandled, adaptiveAnalysis, rec, reviewIterations, i, branchCreated, started,
     lastExit, results, skipped, completionShown, skipTestsReason,
     uncommittedWarning, gitCommandsRun, agents, currentBranch, analysis,
     branchName, createBranchCalls, branchProbes, parseInput, parsed, streamText,
     pending, outputBuffer, lastPrintedMessage, lastPrintedAtSpawn, printed,
     handed, streamResult, analyzerCall, resolved, env, argv, merged, args,
     gitCall, gitOutcome, interactiveRun, ptyAdapter >>

\* the state of the analyzer's parser taken on its own
parserVars == << parseInput, parsed >>

\* the state of one invocation's stdout handling taken on its own
streamVars ==
  << streamText, pending, outputBuffer, lastPrintedMessage, lastPrintedAtSpawn,
     printed, handed, streamResult >>

\* the close event has not fired
NoStreamResult ==
  [closed |-> FALSE, exitCode |-> NullExitCode, exit |-> FALSE,
   success |-> FALSE, output |-> ""]

\* no invocation's stdout is being followed
NoStream ==
  /\ streamText = << >>
  /\ pending = << >>
  /\ outputBuffer = << >>
  /\ lastPrintedMessage = << >>
  /\ lastPrintedAtSpawn = << >>
  /\ printed = << >>
  /\ handed = << >>
  /\ streamResult = NoStreamResult

\* the state of one analyzer call taken on its own
analyzerVars == << analyzerCall, resolved >>

\* the promise is pending
NoResolved == [settled |-> FALSE]

NoAnalyzerCall == [analyzer |-> "none"]

\* no analyzer call is being followed
NoAnalyzer ==
  /\ analyzerCall = NoAnalyzerCall
  /\ resolved = NoResolved

\* the state of one call of a git utility taken on its own
gitVars == << gitCall, gitOutcome >>

\* the interactive pipeline has not been called
NoInteractiveRun ==
  [ autoMode |-> FALSE, reviewIterations |-> 0, at |-> "idle", i |-> 0,
    after |-> "none", started |-> << >>, prompts |-> 0, answers |-> << >>,
    exitStatus |-> -1 ]

NoInteractive == interactiveRun = NoInteractiveRun

\* the PTY-based adapter has not been loaded
NoPtyAdapter ==
  [ variant |-> "none", isTTY |-> FALSE, rawMode |-> FALSE, child |-> "none",
    stdinListeners |-> 0, resizeListeners |-> 0, sigintListeners |-> 0,
    interrupted |-> FALSE, invocations |-> 0, returned |-> << >>,
    exitStatus |-> -1 ]

NoPty == ptyAdapter = NoPtyAdapter

NoGitCall ==
  [ fn |-> "none", found |-> NoAnalysis, existing |-> {},
    g |-> [localLines |-> {}, remoteLines |-> {}, checkoutOk |-> FALSE],
    name |-> << >>, checkoutOk |-> FALSE, current |-> << >>, dryRun |-> FALSE ]

NoGitOutcome ==
  [ done |-> FALSE, branchName |-> << >>, counter |-> 0, probes |-> << >>,
    command |-> << >>, created |-> FALSE, createBranchCalls |-> << >>,
    conflicts |-> {} ]

\* no call of a git utility is being followed
NoGit ==
  /\ gitCall = NoGitCall
  /\ gitOutcome = NoGitOutcome

\* the state of the command line's configuration taken on its own
configVars == << env, argv, merged, args >>

\* an environment variable that is not set; an option that is not given
Unset == [set |-> FALSE]

\* mergeConfig has not been called
NoMerged == [present |-> FALSE]

\* no command line is being followed
NoCommandLine ==
  /\ env = << >>
  /\ argv = << >>
  /\ merged = NoMerged
  /\ args = << >>

\* the pipeline state, left alone by the parser and stream handlers
pipelineVars ==
  << config, pc, child, exitStatus, signalHandlersRegistered, listeners, runs,
     signalsHandled, adaptiveAnalysis, rec, reviewIterations, i, branchCreated,
     started, lastExit, results, skipped, completionShown, skipTestsReason,
     uncommittedWarning, gitCommandsRun, agents, currentBranch, analysis,
     branchName, createBranchCalls, branchProbes >>

\* The per-run part of the state as one record, so that the straight-line
\* code of runPipeline can be written as composed operators.
Cur ==
  [ config |-> config, pc |-> pc, child |-> child, exitStatus |-> exitStatus,
    adaptiveAnalysis |-> adaptiveAnalysis, rec |-> rec,
    reviewIterations |-> reviewIterations, i |-> i,
    branchCreated |-> branchCreated, started |-> started,
    lastExit |-> lastExit, results |-> results, skipped |-> skipped,
    completionShown |-> completionShown, skipTestsReason |-> skipTestsReason,
    uncommittedWarning |-> uncommittedWarning, gitCommandsRun |-> gitCommandsRun,
    agents |-> agents, currentBranch |-> currentBranch, analysis |-> analysis,
    branchName |-> branchName, createBranchCalls |-> createBranchCalls,
    branchProbes |-> branchProbes ]

Install(s) ==
  /\ config' = s.config
  /\ pc' = s.pc
  /\ child' = s.child
  /\ exitStatus' = s.exitStatus
  /\ adaptiveAnalysis' = s.adaptiveAnalysis
  /\ rec' = s.rec
  /\ reviewIterations' = s.reviewIterations
  /\ i' = s.i
  /\ branchCreated' = s.branchCreated
  /\ started' = s.started
  /\ lastExit' = s.lastExit
  /\ results' = s.results
  /\ skipped' = s.skipped
  /\ completionShown' = s.completionShown
  /\ skipTestsReason' = s.skipTestsReason
  /\ uncommittedWarning' = s.uncommittedWarning
  /\ gitCommandsRun' = s.gitCommandsRun
  /\ agents' = s.agents
  /\ currentBranch' = s.currentBranch
  /\ analysis' = s.analysis
  /\ branchName' = s.branchName
  /\ createBranchCalls' = s.createBranchCalls
  /\ branchProbes' = s.branchProbes
  /\ UNCHANGED parserVars
  /\ UNCHANGED streamVars
  /\ UNCHANGED analyzerVars
  /\ UNCHANGED << configVars, gitVars, interactiveRun, ptyAdapter >>

FreshRun(cfg) ==
  [ config |-> cfg, pc |-> "idle", child |-> "none", exitStatus |-> Alive,
    adaptiveAnalysis |-> NoRec, rec |-> NoRec, reviewIterations |-> 0, i |-> 0,
    branchCreated |-> FALSE, started |-> << >>, lastExit |-> NoExit,
    results |-> << >>, skipped |-> {}, completionShown |-> FALSE,
    skipTestsReason |-> "null", uncommittedWarning |-> FALSE,
    gitCommandsRun |-> FALSE, agents |-> 0, currentBranch |-> << >>,
    analysis |-> NoAnalysis, branchName |-> << >>, createBranchCalls |-> << >>,
    branchProbes |-> << >> ]

\* the host before runPipeline is called
InitPipeline ==
  /\ config = NoConfig
  /\ pc = "idle"
  /\ child = "none"
  /\ exitStatus = Alive
  /\ adaptiveAnalysis = NoRec
  /\ rec = NoRec
  /\ reviewIterations = 0
  /\ i = 0
  /\ branchCreated = FALSE
  /\ started = << >>
  /\ lastExit = NoExit
  /\ results = << >>
  /\ skipped = {}
  /\ completionShown = FALSE
  /\ skipTestsReason = "null"
  /\ uncommittedWarning = FALSE
  /\ gitCommandsRun = FALSE
  /\ agents = 0
  /\ currentBranch = << >>
  /\ analysis = NoAnalysis
  /\ branchName = << >>
  /\ createBranchCalls = << >>
  /\ branchProbes = << >>
  /\ signalHandlersRegistered = FALSE
  /\ listeners = [sig \in {"SIGINT", "SIGTERM"} |-> 0]
  /\ runs = 0
  /\ signalsHandled = 0

Init ==
  /\ InitPipeline
  /\ parseInput = EmptyAdaptiveReply
  /\ parsed = NoRec
  /\ NoStream
  /\ NoAnalyzer
  /\ NoGit
  /\ NoInteractive
  /\ NoPty
  /\ NoCommandLine

\* ------------------------------------------------------- history bookkeeping
Started(s, stage, iter) ==
  [s EXCEPT !.started = Append(@, [stage |-> stage, iter |-> iter])]

Skipped(s, stage) == [s EXCEPT !.skipped = @ \cup {stage}]

Returned(s, stage, iter, success, noIssuesFound, output) ==
  [s EXCEPT !.results =
     Append(@, [stage |-> stage, iter |-> iter, success |-> success,
                noIssuesFound |-> noIssuesFound, output |-> output])]

\* runPipeline reads branchResult for the last time before the Implement stage
\* (its success and its adaptiveAnalysis): the rest of the result is kept
\* until the first subprocess of a stage has ended.
branchResultOutOfUse(s, caller) ==
  IF caller = "runClaude"
    THEN [s EXCEPT !.currentBranch = << >>, !.analysis = NoAnalysis,
                   !.branchName = << >>, !.createBranchCalls = << >>,
                   !.branchProbes = << >>]
    ELSE s

\* A faulty host: the promise resolves while the subprocess is still alive.
AgentExitedKeepsProcess(s, caller, kind, code, reply) ==
  [branchResultOutOfUse(s, caller) EXCEPT
            !.child = "none",
            !.lastExit =
              [caller |-> caller, stage |-> s.pc, iter |-> s.i,
               kind |-> kind, code |-> code, reply |-> reply]]

\* The 'close' or 'error' event of the awaited subprocess: at 'close' the
\* process has ended, at 'error' it could not be spawned.
AgentExited(s, caller, kind, code, reply) ==
  [branchResultOutOfUse(s, caller) EXCEPT
            !.child = "none", !.agents = @ - 1,
            !.lastExit =
              [caller |-> caller, stage |-> s.pc, iter |-> s.i,
               kind |-> kind, code |-> code, reply |-> reply]]

\* process.exit(status): the host's memory (the configuration and runPipeline's
\* locals) is gone; what is left is what an observer saw and the subprocess.
processExit(s, status) ==
  [s EXCEPT !.pc = "exited", !.exitStatus = status, !.config = NoConfig,
            !.adaptiveAnalysis = NoRec, !.rec = NoRec,
            !.reviewIterations = 0, !.i = 0, !.branchCreated = FALSE,
            !.currentBranch = << >>, !.analysis = NoAnalysis,
            !.branchName = << >>, !.createBranchCalls = << >>,
            !.branchProbes = << >>]

\* ------------------------------------------------------------------ runClaude
\* What the host does once the stage awaiting runClaude gets its result.
RECURSIVE Resume(_, _, _, _)

\* spawn('claude', args, ...): the host goes on to await the subprocess
spawn(s, awaiting) ==
  [s EXCEPT !.pc = awaiting, !.child = "running", !.agents = @ + 1]

\* A faulty runClaude: the dry-run test is missing.
runClaudeAlwaysSpawns(s, stage, iter) == spawn([s EXCEPT !.i = iter], stage)

\* runClaude up to the point where it awaits the subprocess: in dry-run mode it
\* returns a synthetic success at once, otherwise it spawns the agent.
\* A faulty dry run: the synthetic result carries an approving output.
runClaudeDryRunApproves(s, stage, iter) ==
  IF s.config.dryRun
    THEN Resume(s, stage, iter, [success |-> TRUE, output |-> "LGTM"])
    ELSE spawn([s EXCEPT !.i = iter], stage)

runClaude(s, stage, iter) ==
  IF s.config.dryRun
    THEN Resume(s, stage, iter, [success |-> TRUE, output |-> ""])
    ELSE spawn([s EXCEPT !.i = iter], stage)

\* A faulty close handler: only EXIT_INTERRUPTED ends the host, code 2 is an
\* ordinary failure.
runClaudeOnCloseOnly130(exitCode) ==
  IF exitCode = EXIT_INTERRUPTED
    THEN [exit |-> TRUE, success |-> FALSE, output |-> ""]
    ELSE IF exitCode = EXIT_SUCCESS
      THEN [exit |-> FALSE, success |-> TRUE, output |-> ""]
      ELSE [exit |-> FALSE, success |-> FALSE, output |-> ""]

\* The 'close' handler of runClaude: "exit" is process.exit(EXIT_INTERRUPTED),
\* otherwise the promise resolves with the ClaudeResult.
runClaudeOnClose(exitCode) ==
  IF exitCode = EXIT_INTERRUPTED \/ exitCode = 2
    THEN [exit |-> TRUE, success |-> FALSE, output |-> ""]
    ELSE IF exitCode = EXIT_SUCCESS
      THEN [exit |-> FALSE, success |-> TRUE, output |-> ""]
      ELSE [exit |-> FALSE, success |-> FALSE, output |-> ""]

\* A faulty error handler: a spawn error is treated as an interrupt.
runClaudeOnErrorInterrupts == [exit |-> TRUE, success |-> FALSE, output |-> ""]

\* The 'error' handler of runClaude.
runClaudeOnError == [exit |-> FALSE, success |-> FALSE, output |-> ""]

\* ---------------------------------------------------------------- the stages
\* NO_ISSUES_PATTERNS.some(pattern => pattern.test(output)), on the replies drawn
detectNoIssues(output) == output \in {"No issues found", "LGTM"}

stepImplement(s) == runClaude(Started(s, "implement", 0), "implement", 0)

\* A faulty step 3: the SOLID step function is called in the simplify slot.
stepSimplifyCallsSolid(s) == runClaude(Started(s, "solid", 0), "simplify", 0)

stepSimplify(s) == runClaude(Started(s, "simplify", 0), "simplify", 0)

stepReview(s, iteration) ==
  runClaude(Started(s, "review", iteration), "review", iteration)

\* stepReview's return value from runClaude's result
stepReviewResult(result) ==
  [ success |-> result.success,
    noIssuesFound |-> result.success /\ detectNoIssues(result.output) ]

stepSolidCleanCode(s) == runClaude(Started(s, "solid", 0), "solid", 0)

stepTest(s) ==
  IF s.config.skipTests
    THEN Resume(Started(s, "test", 0), "test", 0,
                [success |-> TRUE, output |-> ""])
    ELSE runClaude(Started(s, "test", 0), "test", 0)

stepCommit(s) == runClaude(Started(s, "commit", 0), "commit", 0)

stepChangelog(s) == runClaude(Started(s, "changelog", 0), "changelog", 0)

\* ---------------------------------------------------------------- runPipeline
exitWithError(s) == processExit(s, EXIT_CODE_FAILURE)

displayCompletionMessage(s) ==
  [s EXCEPT !.pc = "completed", !.completionShown = TRUE,
            !.uncommittedWarning = s.config.implementationOnly]

\* A faulty skip predicate: the recommendation's skipTests is not looked at.
determineSkipTestsReasonNoAdaptive(cfg, r) ==
  IF cfg.implementationOnly THEN "implementation-only mode"
  ELSE IF cfg.skipTests THEN "--skip-tests"
  ELSE "null"

\* A faulty skip predicate: the skip-tests flag is looked at before the
\* recommendation.
determineSkipTestsReasonFlagFirst(cfg, r) ==
  IF cfg.implementationOnly THEN "implementation-only mode"
  ELSE IF cfg.skipTests THEN "--skip-tests"
  ELSE IF r.skipTests THEN "adaptive execution"
  ELSE "null"

\* null when the test stage is to run
determineSkipTestsReason(cfg, r) ==
  IF cfg.implementationOnly THEN "implementation-only mode"
  ELSE IF r.skipTests THEN "adaptive execution"
  ELSE IF cfg.skipTests THEN "--skip-tests"
  ELSE "null"

\* Step 9: Changelog
Step9Changelog(s) ==
  IF s.config.implementationOnly \/ s.rec.skipChangelog
    THEN displayCompletionMessage(Skipped(s, "changelog"))
    ELSE stepChangelog(s)

AfterChangelog(s, success) ==
  IF ~success THEN exitWithError(s) ELSE displayCompletionMessage(s)

\* A faulty step 8: the recommendation's changelog flag skips the commit too.
Step8CommitAdaptive(s) ==
  IF s.config.implementationOnly \/ s.rec.skipChangelog
    THEN Step9Changelog(Skipped(s, "commit"))
    ELSE stepCommit(s)

\* Step 8: Commit
Step8Commit(s) ==
  IF s.config.implementationOnly
    THEN Step9Changelog(Skipped(s, "commit"))
    ELSE stepCommit(s)

AfterCommit(s, success) ==
  IF ~success THEN exitWithError(s) ELSE Step9Changelog(s)

\* Step 7: Test
Step7Test(s) ==
  LET reason == determineSkipTestsReason(s.config, s.rec)
      logged == [s EXCEPT !.skipTestsReason = reason]
  IN IF reason # "null"
       THEN Step8Commit(Skipped(logged, "test"))
       ELSE stepTest(s)

AfterTest(s, success) ==
  IF ~success THEN exitWithError(s) ELSE Step8Commit(s)

\* Step 6: SOLID & Clean Code
Step6Solid(s) ==
  IF s.rec.skipSolid
    THEN Step7Test(Skipped(s, "solid"))
    ELSE stepSolidCleanCode(s)

AfterSolid(s, success) ==
  IF ~success THEN exitWithError(s) ELSE Step7Test(s)

\* Step 5: the for loop's test and body up to the await
ReviewLoop(s) ==
  IF s.i <= s.reviewIterations THEN stepReview(s, s.i) ELSE Step6Solid(s)

\* A faulty loop body: the round's success flag is not looked at.
AfterReviewIgnoresFailure(s, reviewResult) ==
  IF reviewResult.noIssuesFound THEN Step6Solid(s)
  ELSE ReviewLoop([s EXCEPT !.i = @ + 1])

\* the loop body after the await, and i++
AfterReview(s, reviewResult) ==
  IF ~reviewResult.success THEN exitWithError(s)
  ELSE IF reviewResult.noIssuesFound THEN Step6Solid(s)
  ELSE ReviewLoop([s EXCEPT !.i = @ + 1])

\* rec?.reviewIterations ?? config.reviewIterations
reviewIterationsOf(cfg, r) ==
  IF r.present THEN r.reviewIterations ELSE cfg.reviewIterations

Step5Review(s) ==
  IF s.rec.skipReview
    THEN Step6Solid(Skipped(s, "review"))
    ELSE ReviewLoop([s EXCEPT !.reviewIterations = reviewIterationsOf(s.config, s.rec),
                              !.i = 1])

\* A faulty step 3: implementation-only mode is not looked at.
Step3SimplifyNoImplementationOnly(s) ==
  IF s.rec.skipSimplify
    THEN Step5Review(Skipped(s, "simplify"))
    ELSE stepSimplify(s)

\* Step 3: Simplify
Step3Simplify(s) ==
  IF s.config.implementationOnly \/ s.rec.skipSimplify
    THEN Step5Review(Skipped(s, "simplify"))
    ELSE stepSimplify(s)

AfterSimplify(s, success) ==
  IF ~success THEN exitWithError(s) ELSE Step5Review(s)

\* Step 2: Implement
Step2Implement(s) == stepImplement(s)

AfterImplement(s, success) ==
  IF ~success THEN exitWithError(s) ELSE Step3Simplify(s)

\* ------------------------------------------------------ adaptive step analyzer
\* A faulty default: a flag whose label is missing counts as true.
extractBoolOrTrue(value) == value # "false"

\* extractBool(output, field) ?? false
extractBoolOrFalse(value) == value = "true"

clampIterations(n) ==
  IF n < MIN_REVIEW_ITERATIONS THEN MIN_REVIEW_ITERATIONS
  ELSE IF n > MAX_REVIEW_ITERATIONS THEN MAX_REVIEW_ITERATIONS
  ELSE n

\* the stepRecommendation of parseAdaptiveResponse(output)
parseAdaptiveResponse(output) ==
  [ present |-> TRUE,
    skipSimplify |-> extractBoolOrFalse(output.skipSimplify),
    skipReview |-> extractBoolOrFalse(output.skipReview),
    skipSolid |-> extractBoolOrFalse(output.skipSolid),
    skipTests |-> extractBoolOrFalse(output.skipTests),
    skipChangelog |-> extractBoolOrFalse(output.skipChangelog),
    reviewDepth |-> IF output.reviewDepth = "" THEN "standard" ELSE output.reviewDepth,
    reviewIterations |->
      IF output.iterations = NoIterations
        THEN DEFAULT_REVIEW_ITERATIONS
        ELSE clampIterations(output.iterations),
    reasoning |->
      IF output.reasoning = ""
        THEN "AI-analyzed step configuration"
        ELSE output.reasoning ]

\* what analyzeSteps resolves with when its subprocess closes
analyzeStepsOnClose(exitCode, output) ==
  IF exitCode = 0 /\ ~output.empty
    THEN parseAdaptiveResponse(output)
    ELSE DEFAULT_STEP_RECOMMENDATION

\* ------------------------------------------------------------ branch analyzer
RECURSIVE replaceWhiteSpace(_)
\* .replace(/\s+/g, '-'): every run of white space becomes one hyphen
replaceWhiteSpace(str) ==
  IF str = << >> THEN << >>
  ELSE IF Head(str) \in WhiteSpace
    THEN IF Len(str) >= 2 /\ str[2] \in WhiteSpace
           THEN replaceWhiteSpace(Tail(str))
           ELSE << "-" >> \o replaceWhiteSpace(Tail(str))
    ELSE << Head(str) >> \o replaceWhiteSpace(Tail(str))

\* the characters [a-z0-9\s-] keeps
DescriptionChars ==
  Range(LowerCaseLetters) \cup Range(DecimalDigits) \cup WhiteSpace \cup {"-"}

\* A faulty sanitizer: the characters outside [a-z0-9\s-] are kept.
sanitizeDescriptionUnfiltered(input) ==
  substring0(replaceWhiteSpace(toLowerCase(trimString(input))), MAX_DESCRIPTION_LENGTH)

sanitizeDescription(input) ==
  substring0(
    replaceWhiteSpace(
      SelectSeq(toLowerCase(trimString(input)), LAMBDA c : c \in DescriptionChars)),
    MAX_DESCRIPTION_LENGTH)

DEFAULT_ANALYSIS ==
  [ changeType |-> feature,
    isTrivial |-> FALSE,
    suggestedBranchName |-> feature \o << "/" >> \o changes,
    branchPrefix |-> feature,
    shortDescription |-> changes ]

parseAnalysisResponse(output) ==
  LET changeType == IF output.changeType = << >> THEN feature ELSE output.changeType
      isTrivial == output.isTrivial = "true"
      shortDescription ==
        IF output.shortDesc = << >> THEN changes
        ELSE sanitizeDescription(output.shortDesc)
      branchPrefix == IF changeType = trivial THEN chore ELSE changeType
  IN [ changeType |-> changeType,
       isTrivial |-> isTrivial,
       suggestedBranchName |-> branchPrefix \o << "/" >> \o shortDescription,
       branchPrefix |-> branchPrefix,
       shortDescription |-> shortDescription ]

\* what analyzeRequirement resolves with when its subprocess closes
analyzeRequirementOnClose(exitCode, output) ==
  IF exitCode = 0 THEN parseAnalysisResponse(output) ELSE DEFAULT_ANALYSIS

\* what analyzeRequirement resolves with when its subprocess cannot be spawned
analyzeRequirementOnError == DEFAULT_ANALYSIS

\* what analyzeSteps resolves with when its subprocess cannot be spawned
analyzeStepsOnError == DEFAULT_STEP_RECOMMENDATION

\* ------------------------------------------------------------ git utilities
main == << "m", "a", "i", "n" >>
master == << "m", "a", "s", "t", "e", "r" >>
develop == << "d", "e", "v", "e", "l", "o", "p" >>
dev == << "d", "e", "v" >>

MAIN_BRANCH_NAMES == {main, master, develop, dev}

isMainBranch(name) == toLowerCase(name) \in MAIN_BRANCH_NAMES

\* str.startsWith(prefix)
startsWith(str, prefix) ==
  Len(str) >= Len(prefix) /\ SubSeq(str, 1, Len(prefix)) = prefix

\* str.includes(part)
includes(str, part) ==
  \E k \in 1..(Len(str) - Len(part) + 1) : SubSeq(str, k, k + Len(part) - 1) = part

\* b.trim().replace(/^origin\//, '')
stripOrigin(line) ==
  LET b == trimString(line)
      origin == << "o", "r", "i", "g", "i", "n", "/" >>
  IN IF startsWith(b, origin) THEN SubSeq(b, Len(origin) + 1, Len(b)) ELSE b

\* the branch names read off the lines of 'git branch -r'
getRemoteBranches(g) ==
  { b \in {stripOrigin(line) : line \in g.remoteLines} :
      b # << >> /\ ~includes(b, << "H", "E", "A", "D" >>) }

\* b.trim().replace(/^\*\s*/, '')
stripCurrentMark(line) ==
  LET b == trimString(line)
  IN IF b # << >> /\ Head(b) = "*" THEN trimString(Tail(b)) ELSE b

\* localList.includes(name) || remoteBranches.includes(name), with
\* localList read off the lines of 'git branch --list'
branchExists(name, g) ==
  \/ name \in {stripCurrentMark(line) : line \in g.localLines}
  \/ name \in getRemoteBranches(g)

\* str.split('/').pop()
lastSegment(str) ==
  LET slashes == {k \in DOMAIN str : str[k] = "/"}
      last == CHOOSE k \in slashes : \A j \in slashes : j <= k
  IN IF slashes = {} THEN str ELSE SubSeq(str, last + 1, Len(str))

\* the remote branches findSimilarBranches reports as conflicts
findSimilarBranches(keyword, remoteBranches) ==
  LET normalizedKeyword == toLowerCase(keyword)
  IN IF normalizedKeyword = << >> THEN {}
     ELSE { branch \in remoteBranches :
              LET normalizedBranch == toLowerCase(branch)
                  branchSuffix == lastSegment(normalizedBranch)
              IN \/ includes(normalizedBranch, normalizedKeyword)
                 \/ (branchSuffix # << >> /\ includes(normalizedKeyword, branchSuffix)) }

\* the characters /^[a-zA-Z0-9/_-]+$/ accepts
BranchNameChars ==
  Range(LowerCaseLetters) \cup Range(UpperCaseLetters) \cup Range(DecimalDigits)
    \cup {"/", "_", "-"}

\* A faulty createBranch: the name is not validated.
createBranchUnvalidated(name, checkoutOk) ==
  [ command |-> << "git checkout -b " >> \o name, created |-> checkoutOk ]

\* createBranch(name): command is the command line handed to execSync
\* (<< >> when execSync is not called), checkoutOk whether git succeeds
createBranch(name, checkoutOk) ==
  IF name = << >> \/ \E k \in DOMAIN name : name[k] \notin BranchNameChars
    THEN [ command |-> << >>, created |-> FALSE ]
    ELSE [ command |-> << "git checkout -b " >> \o name, created |-> checkoutOk ]

\* `${found.branchPrefix}/${found.shortDescription}-${counter}`
numberedBranchName(found, counter) ==
  found.branchPrefix \o << "/" >> \o found.shortDescription
    \o << "-" >> \o String(counter)

\* A faulty name generation: the numbered name is not probed again.
generateUniqueBranchNameOnce(found, g) ==
  IF branchExists(found.suggestedBranchName, g)
    THEN [ branchName |-> numberedBranchName(found, 1), counter |-> 2,
           probes |-> << found.suggestedBranchName >> ]
    ELSE [ branchName |-> found.suggestedBranchName, counter |-> 1,
           probes |-> << found.suggestedBranchName >> ]

RECURSIVE uniqueBranchNameLoop(_, _, _, _, _)
\* while (branchExists(name)) { name = ...; counter++; }
uniqueBranchNameLoop(found, g, name, counter, probes) ==
  IF branchExists(name, g)
    THEN uniqueBranchNameLoop(found, g, numberedBranchName(found, counter),
                              counter + 1, Append(probes, name))
    ELSE [ branchName |-> name, counter |-> counter,
           probes |-> Append(probes, name) ]

\* Generate unique branch name: the loop's variables when it ends, and the
\* names branchExists was asked about
generateUniqueBranchName(found, g) ==
  uniqueBranchNameLoop(found, g, found.suggestedBranchName, 1, << >>)

\* ------------------------------------------------------- branch management
\* every return of stepBranchManagement is createResult(...): success = true
createResult(s, name, created) ==
  Resume([s EXCEPT !.branchName = name, !.branchCreated = created], "branch", 0,
         [success |-> TRUE, output |-> ""])

\* A faulty placement: a trivial change gets a branch too.
branchPlacementIgnoresTrivial(cfg, current, found, g) ==
  LET conflicts == findSimilarBranches(found.shortDescription, getRemoteBranches(g))
      unique == generateUniqueBranchName(found, g)
      creation == createBranch(unique.branchName, g.checkoutOk)
      call == [branchName |-> unique.branchName, command |-> creation.command]
  IN IF cfg.dryRun
       THEN [ branchName |-> unique.branchName, branchCreated |-> FALSE,
              createBranchCalls |-> << >>, probes |-> unique.probes,
              conflicts |-> conflicts ]
     ELSE IF creation.created
       THEN [ branchName |-> unique.branchName, branchCreated |-> TRUE,
              createBranchCalls |-> << call >>, probes |-> unique.probes,
              conflicts |-> conflicts ]
     ELSE [ branchName |-> current, branchCreated |-> FALSE,
            createBranchCalls |-> << call >>, probes |-> unique.probes,
            conflicts |-> conflicts ]

\* A faulty placement: a reported conflict keeps the stage on the current
\* branch.
branchPlacementBlockedByConflicts(cfg, current, found, g) ==
  LET conflicts == findSimilarBranches(found.shortDescription, getRemoteBranches(g))
      unique == generateUniqueBranchName(found, g)
      creation == createBranch(unique.branchName, g.checkoutOk)
      call == [branchName |-> unique.branchName, command |-> creation.command]
  IN IF found.isTrivial
       THEN [ branchName |-> current, branchCreated |-> FALSE,
              createBranchCalls |-> << >>, probes |-> << >>, conflicts |-> {} ]
     ELSE IF conflicts # {}
       THEN [ branchName |-> current, branchCreated |-> FALSE,
              createBranchCalls |-> << >>, probes |-> << >>,
              conflicts |-> conflicts ]
     ELSE IF cfg.dryRun
       THEN [ branchName |-> unique.branchName, branchCreated |-> FALSE,
              createBranchCalls |-> << >>, probes |-> unique.probes,
              conflicts |-> conflicts ]
     ELSE IF creation.created
       THEN [ branchName |-> unique.branchName, branchCreated |-> TRUE,
              createBranchCalls |-> << call >>, probes |-> unique.probes,
              conflicts |-> conflicts ]
     ELSE [ branchName |-> current, branchCreated |-> FALSE,
            createBranchCalls |-> << call >>, probes |-> unique.probes,
            conflicts |-> conflicts ]

\* what stepBranchManagement does with the classifier's analysis on a main
\* branch: the conflicts it warns about, the names it asked branchExists
\* about, its createBranch calls, and the result's branchName and
\* branchCreated
branchPlacement(cfg, current, found, g) ==
  LET conflicts == findSimilarBranches(found.shortDescription, getRemoteBranches(g))
      unique == generateUniqueBranchName(found, g)
      creation == createBranch(unique.branchName, g.checkoutOk)
      call == [branchName |-> unique.branchName, command |-> creation.command]
  IN IF found.isTrivial
       THEN [ branchName |-> current, branchCreated |-> FALSE,
              createBranchCalls |-> << >>, probes |-> << >>, conflicts |-> {} ]
     ELSE IF cfg.dryRun
       THEN [ branchName |-> unique.branchName, branchCreated |-> FALSE,
              createBranchCalls |-> << >>, probes |-> unique.probes,
              conflicts |-> conflicts ]
     ELSE IF creation.created
       THEN [ branchName |-> unique.branchName, branchCreated |-> TRUE,
              createBranchCalls |-> << call >>, probes |-> unique.probes,
              conflicts |-> conflicts ]
     ELSE [ branchName |-> current, branchCreated |-> FALSE,
            createBranchCalls |-> << call >>, probes |-> unique.probes,
            conflicts |-> conflicts ]

\* A faulty stage: a failed branch creation fails the stage.
BranchAfterAnalysisFailsWithGit(s, found, g) ==
  LET placement == branchPlacement(s.config, s.currentBranch, found, g)
      placed == [s EXCEPT !.analysis = found,
                          !.createBranchCalls = placement.createBranchCalls,
                          !.branchProbes = placement.probes,
                          !.branchName = placement.branchName,
                          !.branchCreated = placement.branchCreated]
  IN Resume(placed, "branch", 0,
            [success |-> placement.createBranchCalls = << >> \/ placement.branchCreated,
             output |-> ""])

\* from the classifier's analysis to the return
BranchAfterAnalysis(s, found, g) ==
  LET placement == branchPlacement(s.config, s.currentBranch, found, g)
  IN createResult([s EXCEPT !.analysis = found,
                            !.createBranchCalls = placement.createBranchCalls,
                            !.branchProbes = placement.probes],
                  placement.branchName, placement.branchCreated)

\* the analysis analyzeRequirement returns in dry-run mode
DryRunAnalysis ==
  [DEFAULT_ANALYSIS EXCEPT
     !.suggestedBranchName =
        feature \o << "/", "d", "r", "y", "-", "r", "u", "n", "-" >> \o changes,
     !.shortDescription = << "d", "r", "y", "-", "r", "u", "n", "-" >> \o changes]

analyzeRequirement(s, g) ==
  IF s.config.dryRun
    THEN BranchAfterAnalysis(s, DryRunAnalysis, g)
    ELSE spawn(s, "analyzeRequirement")

\* getGitState() runs git through execSync
getGitState(s, g) ==
  [s EXCEPT !.gitCommandsRun = TRUE, !.currentBranch = g.currentBranch]

\* from the adaptive analysis to the classifier call
BranchAfterAdaptive(s, g) ==
  IF s.config.skipBranchManagement THEN createResult(s, << >>, FALSE)
  ELSE IF ~isMainBranch(g.currentBranch)
    THEN createResult(getGitState(s, g), g.currentBranch, FALSE)
  ELSE analyzeRequirement(getGitState(s, g), g)

\* the stepRecommendation analyzeSteps returns in dry-run mode
DryRunStepRecommendation ==
  [DEFAULT_STEP_RECOMMENDATION EXCEPT
     !.reasoning = "Dry run mode - using default configuration"]

analyzeSteps(s, g) ==
  IF s.config.dryRun
    THEN BranchAfterAdaptive([s EXCEPT !.adaptiveAnalysis = DryRunStepRecommendation], g)
    ELSE spawn(s, "analyzeSteps")

stepBranchManagement(s, g) ==
  IF s.config.adaptiveExecution
    THEN analyzeSteps(Started(s, "branch", 0), g)
    ELSE BranchAfterAdaptive([Started(s, "branch", 0) EXCEPT !.adaptiveAnalysis = NoRec], g)

\* Step 1: Smart Branch Management
Step1Branch(s, g) ==
  IF s.config.implementationOnly \/ s.config.skipBranchManagement
    THEN Step2Implement(Skipped(s, "branch"))
    ELSE stepBranchManagement(s, g)

AfterBranch(s, success) ==
  IF ~success THEN exitWithError(s)
  ELSE Step2Implement([s EXCEPT !.rec = s.adaptiveAnalysis])

\* ------------------------------------------------- the awaits' continuations
Resume(s, stage, iter, result) ==
  LET plain == Returned(s, stage, iter, result.success, FALSE, result.output)
      reviewResult == stepReviewResult(result)
  IN CASE stage = "branch" -> AfterBranch(plain, result.success)
       [] stage = "implement" -> AfterImplement(plain, result.success)
       [] stage = "simplify" -> AfterSimplify(plain, result.success)
       [] stage = "review" ->
            AfterReview(Returned(s, stage, iter, reviewResult.success,
                                 reviewResult.noIssuesFound, result.output),
                        reviewResult)
       [] stage = "solid" -> AfterSolid(plain, result.success)
       [] stage = "test" -> AfterTest(plain, result.success)
       [] stage = "commit" -> AfterCommit(plain, result.success)
       [] stage = "changelog" -> AfterChangelog(plain, result.success)

\* ------------------------------------------------------------------ actions
\* A faulty registration: the signalHandlersRegistered guard is missing.
RegisterSignalHandlersEveryRun ==
  /\ listeners' = [sig \in DOMAIN listeners |-> listeners[sig] + 1]
  /\ signalHandlersRegistered' = TRUE

\* Setup interrupt handler (only once to prevent duplicate registrations)
RegisterSignalHandlers ==
  IF ~signalHandlersRegistered
    THEN /\ listeners' = [sig \in DOMAIN listeners |-> listeners[sig] + 1]
         /\ signalHandlersRegistered' = TRUE
    ELSE UNCHANGED << listeners, signalHandlersRegistered >>

\* runPipeline(config) from its entry to its first await (or to its end)
runPipeline(cfgs, envs) ==
  /\ runs' = runs + 1
  /\ RegisterSignalHandlers
  /\ UNCHANGED signalsHandled
  /\ \E cfg \in cfgs, g \in envs : Install(Step1Branch(FreshRun(cfg), g))

\* the command line's one call of runPipeline, with any configuration
RunPipeline ==
  /\ exitStatus = Alive
  /\ pc = "idle"
  /\ runPipeline(Config, GitEnv)

\* runPipeline called by a host that calls it again when the previous run has
\* returned; the configurations drawn are those without adaptive execution
RunPipelineRepeatedly ==
  /\ exitStatus = Alive
  /\ pc \in {"idle", "completed"}
  /\ runs < MaxRuns
  /\ runPipeline({cfg \in Config : ~cfg.adaptiveExecution}, GitEnv)

\* runClaude's child.on('close')
ClaudeClose ==
  /\ exitStatus = Alive
  /\ child = "running"
  /\ pc \in RunClaudeStages
  /\ \E exitCode \in AgentExitCodes \cup {NullExitCode},
        reply \in (IF pc = "review" THEN Replies ELSE {""}) :
       LET s == AgentExited(Cur, "runClaude",
                            IF exitCode = NullExitCode THEN "signal" ELSE "exit",
                            exitCode, reply)
           r == runClaudeOnClose(exitCode)
       IN Install(IF r.exit
                    THEN processExit(s, EXIT_INTERRUPTED)
                    ELSE Resume(s, pc, i, [success |-> r.success, output |-> r.output]))
  /\ UNCHANGED << signalHandlersRegistered, listeners, runs, signalsHandled >>

\* runClaude's child.on('error'): the agent could not be spawned
ClaudeError ==
  /\ exitStatus = Alive
  /\ child = "running"
  /\ pc \in RunClaudeStages
  /\ LET s == AgentExited(Cur, "runClaude", "error", NullExitCode, "")
         r == runClaudeOnError
     IN Install(IF r.exit
                  THEN processExit(s, EXIT_INTERRUPTED)
                  ELSE Resume(s, pc, i, [success |-> r.success, output |-> r.output]))
  /\ UNCHANGED << signalHandlersRegistered, listeners, runs, signalsHandled >>

\* analyzeSteps' child.on('close'), then stepBranchManagement up to its next await
AnalyzeStepsCloseOn(outputs, envs) ==
  /\ exitStatus = Alive
  /\ child = "running"
  /\ pc = "analyzeSteps"
  /\ \E exitCode \in AgentExitCodes \cup {NullExitCode},
        output \in outputs,
        g \in envs :
       LET s == AgentExited(Cur, "analyzeSteps",
                            IF exitCode = NullExitCode THEN "signal" ELSE "exit",
                            exitCode, "")
       IN Install(BranchAfterAdaptive(
                    [s EXCEPT !.adaptiveAnalysis = analyzeStepsOnClose(exitCode, output)], g))
  /\ UNCHANGED << signalHandlersRegistered, listeners, runs, signalsHandled >>

AnalyzeStepsClose == AnalyzeStepsCloseOn(AdaptiveReplies \cup {EmptyAdaptiveReply}, GitEnv)

\* analyzeSteps' child.on('error')
AnalyzeStepsErrorOn(envs) ==
  /\ exitStatus = Alive
  /\ child = "running"
  /\ pc = "analyzeSteps"
  /\ \E g \in envs :
       LET s == AgentExited(Cur, "analyzeSteps", "error", NullExitCode, "")
       IN Install(BranchAfterAdaptive(
                    [s EXCEPT !.adaptiveAnalysis = analyzeStepsOnError], g))
  /\ UNCHANGED << signalHandlersRegistered, listeners, runs, signalsHandled >>

AnalyzeStepsError == AnalyzeStepsErrorOn(GitEnv)

\* analyzeRequirement's child.on('close'), then stepBranchManagement to its return
AnalyzeRequirementCloseOn(outputs, envs) ==
  /\ exitStatus = Alive
  /\ child = "running"
  /\ pc = "analyzeRequirement"
  /\ \E exitCode \in AgentExitCodes \cup {NullExitCode},
        output \in outputs,
        g \in envs :
       LET s == AgentExited(Cur, "analyzeRequirement",
                            IF exitCode = NullExitCode THEN "signal" ELSE "exit",
                            exitCode, "")
       IN Install(BranchAfterAnalysis(s, analyzeRequirementOnClose(exitCode, output), g))
  /\ UNCHANGED << signalHandlersRegistered, listeners, runs, signalsHandled >>

AnalyzeRequirementClose == AnalyzeRequirementCloseOn(RunAnalysisReplies, GitEnv)

\* analyzeRequirement's child.on('error')
AnalyzeRequirementErrorOn(envs) ==
  /\ exitStatus = Alive
  /\ child = "running"
  /\ pc = "analyzeRequirement"
  /\ \E g \in envs :
       LET s == AgentExited(Cur, "analyzeRequirement", "error", NullExitCode, "")
       IN Install(BranchAfterAnalysis(s, analyzeRequirementOnError, g))
  /\ UNCHANGED << signalHandlersRegistered, listeners, runs, signalsHandled >>

AnalyzeRequirementError == AnalyzeRequirementErrorOn(GitEnv)

\* the SIGINT / SIGTERM listener of runPipeline: log, process.exit(130).
\* Nothing in it touches the subprocess; process.exit ends the host inside the
\* first listener, so no other listener of the signal runs after it.
SignalHandler(sig) ==
  /\ exitStatus = Alive
  /\ listeners[sig] > 0
  /\ Install(processExit(Cur, EXIT_CODE_INTERRUPT))
  /\ signalsHandled' = signalsHandled + 1
  /\ UNCHANGED << signalHandlersRegistered, listeners, runs >>

OnSIGINT == SignalHandler("SIGINT")

OnSIGTERM == SignalHandler("SIGTERM")

\* A faulty end: a handle left open keeps the event loop, and with it the
\* process, alive after runPipeline has returned.
ProcessKeptAlive ==
  /\ exitStatus = Alive
  /\ pc = "completed"
  /\ child = "running"
  /\ UNCHANGED vars

\* runPipeline has returned and the caller lets the process end
ProcessEnd ==
  /\ exitStatus = Alive
  /\ pc = "completed"
  /\ Install(processExit(Cur, 0))
  /\ UNCHANGED << signalHandlersRegistered, listeners, runs, signalsHandled >>

Next ==
  \/ RunPipeline
  \/ ClaudeClose
  \/ ClaudeError
  \/ AnalyzeStepsClose
  \/ AnalyzeStepsError
  \/ AnalyzeRequirementClose
  \/ AnalyzeRequirementError
  \/ OnSIGINT
  \/ OnSIGTERM
  \/ ProcessEnd

Spec == Init /\ [][Next]_vars

NextRuns ==
  \/ RunPipelineRepeatedly
  \/ ClaudeClose
  \/ ClaudeError
  \/ AnalyzeRequirementClose
  \/ AnalyzeRequirementError
  \/ OnSIGINT
  \/ OnSIGTERM
  \/ ProcessEnd

SpecRuns == Init /\ [][NextRuns]_vars

\* ------------------------------------------- parseAdaptiveResponse on its own
\* any non-empty output of the analyzer subprocess
InitParse ==
  /\ InitPipeline
  /\ parseInput \in AdaptiveReplies
  /\ parsed = NoRec
  /\ NoStream
  /\ NoAnalyzer
  /\ NoGit
  /\ NoInteractive
  /\ NoPty
  /\ NoCommandLine

\* resolve(parseAdaptiveResponse(output))
ParseAdaptiveResponse ==
  /\ ~parsed.present
  /\ parsed' = parseAdaptiveResponse(parseInput)
  /\ UNCHANGED << pipelineVars, parseInput, streamVars, analyzerVars, gitVars, configVars, interactiveRun, ptyAdapter >>

NextParse == ParseAdaptiveResponse

SpecParse == InitParse /\ [][NextParse]_vars

\* ----------------------------------------------- runClaude's stdout handling
\* The bytes of a line of stream-json, shortened to what the handler tells
\* apart: a kind byte, the body, and the closing brace.  "C3" "A9" are the two
\* bytes of one non-ASCII character of a text body.
InitEventLine == << "i", "}" >>
ToolUseLineA == << "a", "}" >>
ToolUseLineB == << "b", "}" >>
TextEventLine == << "t", "C3", "A9", "}" >>
EmptyTextEventLine == << "t", "}" >>
UnknownEventLine == << "u", "}" >>
NonJsonLine == << "x" >>
BlankLine == << "SP" >>

StreamLines ==
  { InitEventLine, ToolUseLineA, ToolUseLineB, TextEventLine,
    EmptyTextEventLine, UnknownEventLine, NonJsonLine, BlankLine }

RECURSIVE JoinLines(_)
\* the lines, each followed by a line feed
JoinLines(lines) ==
  IF lines = << >> THEN << >>
  ELSE Head(lines) \o << "LF" >> \o JoinLines(Tail(lines))

\* what the agent may write: up to MaxStreamLines lines, the last one with or
\* without its line feed
StreamTexts ==
  LET whole == UNION { { JoinLines(ls) : ls \in [1..n -> StreamLines] } :
                       n \in 0..MaxStreamLines }
  IN whole \cup { SubSeq(w, 1, Len(w) - 1) : w \in whole \ { << >> } }

RECURSIVE toString(_)
\* Buffer.toString(): UTF-8 decoding of one chunk; a lead byte without its
\* continuation byte, and a continuation byte on its own, decode to U+FFFD
toString(data) ==
  IF data = << >> THEN << >>
  ELSE IF Head(data) = "C3"
    THEN IF Len(data) >= 2 /\ data[2] = "A9"
           THEN << "E9" >> \o toString(SubSeq(data, 3, Len(data)))
           ELSE << "FFFD" >> \o toString(Tail(data))
  ELSE IF Head(data) = "A9" THEN << "FFFD" >> \o toString(Tail(data))
  ELSE << Head(data) >> \o toString(Tail(data))

\* line.trim()
trim(line) == SelectSeq(line, LAMBDA c : c # "SP")

\* JSON.parse(line), by the fields processStreamEvent reads; "invalid" is a
\* SyntaxError
JSONparse(line) ==
  LET body == SubSeq(line, 2, Len(line) - 1)
  IN IF Len(line) < 2 \/ line[Len(line)] # "}"
       THEN [type |-> "invalid", name |-> "", text |-> << >>]
     ELSE IF line[1] = "t" /\ \A k \in DOMAIN body : body[k] \in {"E9", "FFFD"}
       THEN [type |-> "text", name |-> "", text |-> body]
     ELSE IF body # << >>
       THEN [type |-> "invalid", name |-> "", text |-> << >>]
     ELSE IF line[1] = "i"
       THEN [type |-> "init", name |-> "", text |-> << >>]
     ELSE IF line[1] \in {"a", "b"}
       THEN [type |-> "tool_use", name |-> line[1], text |-> << >>]
     ELSE IF line[1] = "u"
       THEN [type |-> "unknown", name |-> "", text |-> << >>]
     ELSE [type |-> "invalid", name |-> "", text |-> << >>]

\* the summary line of a tool call: never the empty string
formatToolCall(name) == << "Reading", name >>

\* console.log
consoleLog(st, kind, body) ==
  [st EXCEPT !.printed = Append(@, [kind |-> kind, body |-> body])]

\* A faulty handler: the dedup memory is not reset after a text message.
processStreamEventNoReset(st, line) ==
  LET event == JSONparse(line)
      message == formatToolCall(event.name)
  IN CASE event.type = "init" ->
            [consoleLog(st, "banner", << >>) EXCEPT !.lastPrintedMessage = << >>]
       [] event.type = "text" /\ event.text # << >> ->
            consoleLog(st, "text", event.text)
       [] event.type = "tool_use" /\ message # st.lastPrintedMessage ->
            [consoleLog(st, "tool", message) EXCEPT !.lastPrintedMessage = message]
       [] OTHER -> st

\* A faulty handler: a line that is not JSON is reported on the console and
\* clears the dedup memory.
processStreamEventReportsErrors(st, line) ==
  LET event == JSONparse(line)
      message == formatToolCall(event.name)
  IN CASE event.type = "init" ->
            [consoleLog(st, "banner", << >>) EXCEPT !.lastPrintedMessage = << >>]
       [] event.type = "text" /\ event.text # << >> ->
            [consoleLog(st, "text", event.text) EXCEPT !.lastPrintedMessage = << >>]
       [] event.type = "tool_use" /\ message # st.lastPrintedMessage ->
            [consoleLog(st, "tool", message) EXCEPT !.lastPrintedMessage = message]
       [] event.type = "invalid" ->
            [consoleLog(st, "error", << >>) EXCEPT !.lastPrintedMessage = << >>]
       [] OTHER -> st

\* A faulty handler: a text that repeats the last printed line is left out.
processStreamEventDedupText(st, line) ==
  LET event == JSONparse(line)
      message == formatToolCall(event.name)
  IN CASE event.type = "init" ->
            [consoleLog(st, "banner", << >>) EXCEPT !.lastPrintedMessage = << >>]
       [] event.type = "text" /\ event.text # << >>
            /\ event.text # st.lastPrintedMessage ->
            [consoleLog(st, "text", event.text) EXCEPT !.lastPrintedMessage = event.text]
       [] event.type = "tool_use" /\ message # st.lastPrintedMessage ->
            [consoleLog(st, "tool", message) EXCEPT !.lastPrintedMessage = message]
       [] OTHER -> st

\* processStreamEvent(line): the session banner, an assistant text, or a tool
\* summary unless it repeats the last printed one; anything else, and anything
\* that throws, leaves no trace
processStreamEvent(st, line) ==
  LET event == JSONparse(line)
      message == formatToolCall(event.name)
  IN CASE event.type = "init" ->
            [consoleLog(st, "banner", << >>) EXCEPT !.lastPrintedMessage = << >>]
       [] event.type = "text" /\ event.text # << >> ->
            [consoleLog(st, "text", event.text) EXCEPT !.lastPrintedMessage = << >>]
       [] event.type = "tool_use" /\ message # st.lastPrintedMessage ->
            [consoleLog(st, "tool", message) EXCEPT !.lastPrintedMessage = message]
       [] OTHER -> st

\* if (line.trim()) processStreamEvent(line)
processLine(st, line) ==
  IF trim(line) = << >> THEN st
  ELSE processStreamEvent([st EXCEPT !.handed = Append(@, line)], line)

RECURSIVE splitAndProcess(_, _)
\* the loop of the 'data' handler over data.toString().split('\n'): a piece
\* before a line feed completes the buffered line, the last piece is buffered
splitAndProcess(st, chars) ==
  IF chars = << >> THEN st
  ELSE IF Head(chars) = "LF"
    THEN splitAndProcess(processLine([st EXCEPT !.outputBuffer = << >>],
                                     st.outputBuffer),
                         Tail(chars))
    ELSE splitAndProcess([st EXCEPT !.outputBuffer = Append(@, Head(chars))],
                         Tail(chars))

\* child.stdout.on('data', (data: Buffer) => ...)
onData(st, data) == splitAndProcess(st, toString(data))

\* the close handler's first statement: process what is left in the buffer
flushOutputBuffer(st) == processLine(st, st.outputBuffer)

CurStream ==
  [ outputBuffer |-> outputBuffer, lastPrintedMessage |-> lastPrintedMessage,
    printed |-> printed, handed |-> handed ]

InstallStream(st) ==
  /\ outputBuffer' = st.outputBuffer
  /\ lastPrintedMessage' = st.lastPrintedMessage
  /\ printed' = st.printed
  /\ handed' = st.handed

\* runClaude has spawned the agent: an empty outputBuffer, and the module's
\* lastPrintedMessage as the previous invocation left it
InitStream ==
  /\ InitPipeline
  /\ parseInput = EmptyAdaptiveReply
  /\ parsed = NoRec
  /\ streamText \in StreamTexts
  /\ pending = streamText
  /\ outputBuffer = << >>
  /\ lastPrintedMessage \in { << >>, formatToolCall("a") }
  /\ lastPrintedAtSpawn = lastPrintedMessage
  /\ printed = << >>
  /\ handed = << >>
  /\ streamResult = NoStreamResult
  /\ NoAnalyzer
  /\ NoGit
  /\ NoInteractive
  /\ NoPty
  /\ NoCommandLine

\* a 'data' event with the next bytes of the stream, cut anywhere
StdoutData ==
  /\ ~streamResult.closed
  /\ \E n \in 1..Len(pending) :
       /\ InstallStream(onData(CurStream, SubSeq(pending, 1, n)))
       /\ pending' = SubSeq(pending, n + 1, Len(pending))
  /\ UNCHANGED << pipelineVars, parserVars, streamText, lastPrintedAtSpawn,
                  streamResult, analyzerVars, gitVars, configVars, interactiveRun, ptyAdapter >>

\* the 'close' event, after all of stdout has been delivered
StreamClose ==
  /\ ~streamResult.closed
  /\ pending = << >>
  /\ InstallStream(flushOutputBuffer(CurStream))
  /\ \E exitCode \in AgentExitCodes \cup {NullExitCode} :
       LET r == runClaudeOnClose(exitCode)
       IN streamResult' = [closed |-> TRUE, exitCode |-> exitCode, exit |-> r.exit,
                           success |-> r.success, output |-> r.output]
  /\ UNCHANGED << pipelineVars, parserVars, streamText, pending,
                  lastPrintedAtSpawn, analyzerVars, gitVars, configVars, interactiveRun, ptyAdapter >>

NextStream ==
  \/ StdoutData
  \/ StreamClose

SpecStream == InitStream /\ [][NextStream]_vars

\* ------------------------------------------------- configuration loading
Set(v) == [set |-> TRUE, value |-> v]

\* a ?? b
orElse(a, b) == IF a.set THEN a ELSE b

\* a number: NaN, or the integer n
NaN == [nan |-> TRUE, n |-> 0]

Number(n) == [nan |-> FALSE, n |-> n]

RECURSIVE leadingDigits(_)
leadingDigits(str) ==
  IF str = << >> \/ Head(str) \notin Range(DecimalDigits) THEN << >>
  ELSE << Head(str) >> \o leadingDigits(Tail(str))

RECURSIVE decimalValue(_)
decimalValue(digits) ==
  IF digits = << >> THEN 0
  ELSE decimalValue(SubSeq(digits, 1, Len(digits) - 1)) * 10
       + (CHOOSE k \in DOMAIN DecimalDigits : DecimalDigits[k] = digits[Len(digits)]) - 1

\* parseInt(str, 10): white space, an optional sign, then as many digits as
\* there are; NaN when there is none
parseInt(str) ==
  LET s == trimString(str)
      signed == s # << >> /\ Head(s) \in {"-", "+"}
      digits == leadingDigits(IF signed THEN Tail(s) ELSE s)
  IN IF digits = << >> THEN NaN
     ELSE IF signed /\ Head(s) = "-" THEN Number(0 - decimalValue(digits))
     ELSE Number(decimalValue(digits))

parseBoolEnv(value, defaultValue) ==
  IF ~value.set THEN defaultValue
  ELSE toLowerCase(value.value) = << "t", "r", "u", "e" >>

parseIntEnv(value, defaultValue) ==
  IF ~value.set THEN Number(defaultValue)
  ELSE IF parseInt(value.value).nan THEN Number(defaultValue)
  ELSE parseInt(value.value)

\* process.env.X || undefined
orUndefined(value) == IF value.set /\ value.value # "" THEN value ELSE Unset

loadConfigFromEnv(e) ==
  [ reviewIterations |-> Set(parseIntEnv(e.REVIEW_ITERATIONS, DEFAULT_REVIEW_ITERATIONS)),
    dryRun |-> Set(parseBoolEnv(e.DRY_RUN, FALSE)),
    logFile |-> orUndefined(e.LOG_FILE),
    skipTests |-> Set(parseBoolEnv(e.SKIP_TESTS, FALSE)),
    skipPush |-> Set(parseBoolEnv(e.SKIP_PUSH, FALSE)),
    skipBranchManagement |-> Set(parseBoolEnv(e.SKIP_BRANCH_MANAGEMENT, FALSE)),
    dangerouslySkipPermissions |->
      Set(parseBoolEnv(e.DANGEROUSLY_SKIP_PERMISSIONS, FALSE)),
    allowedTools |-> orUndefined(e.ALLOWED_TOOLS),
    adaptiveExecution |-> Set(parseBoolEnv(e.ADAPTIVE_EXECUTION, FALSE)) ]

\* A faulty merge: the allowlist is kept when skip-all is configured.
mergeConfigKeepsAllowedTools(envConfig, cliConfig) ==
  [ present |-> TRUE,
    reviewIterations |->
      orElse(cliConfig.reviewIterations,
             orElse(envConfig.reviewIterations, Set(Number(DEFAULT_REVIEW_ITERATIONS)))).value,
    dryRun |-> orElse(cliConfig.dryRun, orElse(envConfig.dryRun, Set(FALSE))).value,
    logFile |-> orElse(cliConfig.logFile, envConfig.logFile),
    skipTests |-> orElse(cliConfig.skipTests, orElse(envConfig.skipTests, Set(FALSE))).value,
    skipPush |-> orElse(cliConfig.skipPush, orElse(envConfig.skipPush, Set(FALSE))).value,
    skipBranchManagement |->
      orElse(cliConfig.skipBranchManagement,
             orElse(envConfig.skipBranchManagement, Set(FALSE))).value,
    dangerouslySkipPermissions |->
      orElse(cliConfig.dangerouslySkipPermissions,
             orElse(envConfig.dangerouslySkipPermissions, Set(FALSE))).value,
    allowedTools |->
      orElse(cliConfig.allowedTools, orElse(envConfig.allowedTools, Set("Edit,Read,Bash"))),
    requirement |-> orElse(cliConfig.requirement, Set("")).value,
    adaptiveExecution |->
      orElse(cliConfig.adaptiveExecution, orElse(envConfig.adaptiveExecution, Set(FALSE))).value ]

mergeConfig(envConfig, cliConfig) ==
  LET dangerouslySkipPermissions ==
        orElse(cliConfig.dangerouslySkipPermissions,
               orElse(envConfig.dangerouslySkipPermissions, Set(FALSE))).value
      allowedTools ==
        IF dangerouslySkipPermissions THEN Unset
        ELSE orElse(cliConfig.allowedTools,
                    orElse(envConfig.allowedTools, Set("Edit,Read,Bash")))
  IN [ present |-> TRUE,
       reviewIterations |->
         orElse(cliConfig.reviewIterations,
                orElse(envConfig.reviewIterations,
                       Set(Number(DEFAULT_REVIEW_ITERATIONS)))).value,
       dryRun |-> orElse(cliConfig.dryRun, orElse(envConfig.dryRun, Set(FALSE))).value,
       logFile |-> orElse(cliConfig.logFile, envConfig.logFile),
       skipTests |->
         orElse(cliConfig.skipTests, orElse(envConfig.skipTests, Set(FALSE))).value,
       skipPush |->
         orElse(cliConfig.skipPush, orElse(envConfig.skipPush, Set(FALSE))).value,
       skipBranchManagement |->
         orElse(cliConfig.skipBranchManagement,
                orElse(envConfig.skipBranchManagement, Set(FALSE))).value,
       dangerouslySkipPermissions |-> dangerouslySkipPermissions,
       allowedTools |-> allowedTools,
       requirement |-> orElse(cliConfig.requirement, Set("")).value,
       adaptiveExecution |->
         orElse(cliConfig.adaptiveExecution,
                orElse(envConfig.adaptiveExecution, Set(FALSE))).value ]

\* program.option(...): what commander hands to the action for the options
\* given; --reviews is declared with the default value '2'
commanderOptions(given) == [given EXCEPT !.reviews = orElse(@, Set(<< "2" >>))]

\* the cliConfig object of the action
cliConfigOf(requirement, options) ==
  [ requirement |-> Set(requirement),
    dryRun |-> options.dryRun,
    reviewIterations |->
      IF options.reviews.set /\ options.reviews.value # << >>
        THEN Set(parseInt(options.reviews.value))
        ELSE Unset,
    skipTests |-> options.skipTests,
    skipPush |-> options.skipPush,
    skipBranchManagement |-> options.skipBranchManagement,
    logFile |-> options.log,
    dangerouslySkipPermissions |-> options.dangerouslySkipPermissions,
    allowedTools |-> options.allowedTools,
    adaptiveExecution |-> options.adaptive ]

\* the argument list runClaude builds; every argument is the sequence of the
\* pieces of text it is put together from
runClaudeArgs(options, cfg) ==
  (IF cfg.dangerouslySkipPermissions
     THEN << << "--dangerously-skip-permissions" >> >> ELSE << >>)
  \o << << "-p" >>, << "--output-format=stream-json" >>, << "--verbose" >> >>
  \o (IF options.continueConversation THEN << << "-c" >> >> ELSE << >>)
  \o << << options.prompt, ". Once the work is completed, exit." >> >>

\* the argument list analyzeSteps and analyzeRequirement build
analyzerArgs(prompt, cfg) ==
  << << "--print" >> >>
  \o (IF cfg.dangerouslySkipPermissions
        THEN << << "--dangerously-skip-permissions" >> >> ELSE << >>)
  \o << << prompt >> >>

\* the environments and command lines drawn; the field X of an environment
\* is the variable named SF_ followed by X
Environments ==
  { e \in [ REVIEW_ITERATIONS : {Unset, Set(<< "3" >>), Set(<< "a", "b", "c" >>)},
            DRY_RUN : {Unset, Set(<< "T", "R", "U", "E" >>),
                          Set(<< "f", "a", "l", "s", "e" >>)},
            LOG_FILE : {Unset, Set("sf.log")},
            SKIP_TESTS : {Unset, Set(<< "t", "r", "u", "e" >>)},
            SKIP_PUSH : {Unset, Set(<< "t", "r", "u", "e" >>)},
            SKIP_BRANCH_MANAGEMENT : {Unset, Set(<< "t", "r", "u", "e" >>)},
            DANGEROUSLY_SKIP_PERMISSIONS :
              {Unset, Set(<< "t", "r", "u", "e" >>), Set(<< "f", "a", "l", "s", "e" >>)},
            ALLOWED_TOOLS : {Unset, Set(""), Set("Edit,Read,Write,Bash")},
            ADAPTIVE_EXECUTION : {Unset, Set(<< "t", "r", "u", "e" >>)} ] :
      Cardinality({name \in DOMAIN e : e[name].set}) <= MaxEnvVars }

CommandLines ==
  { a \in [ reviews : {Unset, Set(<< "1" >>), Set(<< "5" >>)},
            dryRun : {Unset, Set(TRUE)},
            adaptive : {Unset, Set(TRUE)},
            skipTests : {Unset, Set(TRUE)},
            skipPush : {Unset, Set(TRUE)},
            skipBranchManagement : {Unset, Set(TRUE)},
            log : {Unset, Set("pipeline.log")},
            dangerouslySkipPermissions : {Unset, Set(TRUE)},
            allowedTools : {Unset, Set("Read,Grep,Glob")} ] :
      Cardinality({name \in DOMAIN a : a[name].set}) <= MaxOptions }

\* sf is started with some environment and some options
InitConfig ==
  /\ InitPipeline
  /\ parseInput = EmptyAdaptiveReply
  /\ parsed = NoRec
  /\ NoStream
  /\ NoAnalyzer
  /\ NoGit
  /\ NoInteractive
  /\ NoPty
  /\ env \in Environments
  /\ argv \in CommandLines
  /\ merged = NoMerged
  /\ args = << >>

\* the action of the program: loadConfigFromEnv, cliConfig, mergeConfig
ProgramAction ==
  /\ ~merged.present
  /\ merged' = mergeConfig(loadConfigFromEnv(env),
                           cliConfigOf("add feature X", commanderOptions(argv)))
  /\ UNCHANGED << pipelineVars, parserVars, streamVars, analyzerVars, gitVars, env, argv, args, interactiveRun, ptyAdapter >>

\* the first line of the prompt each stage function builds
stepPrompt ==
  [ implement |-> "add feature X",
    simplify |-> "Refine the recently modified code for clarity",
    review |-> "Review and improve the changes:",
    solid |-> "Review the code for SOLID principles and Clean Code compliance:",
    test |-> "Testing phase:",
    commit |-> "Commit the changes:",
    changelog |-> "Update CHANGELOG.md:" ]

\* the options a stage function hands to runClaude: stepImplement gives the
\* prompt alone, every other stage function continueConversation: true
stepOptions(stage) ==
  [ prompt |-> stepPrompt[stage], continueConversation |-> stage # "implement" ]

\* a stage calls runClaude(options, config)
RunClaudeInvocation ==
  /\ merged.present
  /\ \E stage \in RunClaudeStages :
       args' = runClaudeArgs(stepOptions(stage), merged)
  /\ UNCHANGED << pipelineVars, parserVars, streamVars, analyzerVars, gitVars, env, argv, merged, interactiveRun, ptyAdapter >>

\* the branch stage calls analyzeSteps or analyzeRequirement
AnalyzerInvocation ==
  /\ merged.present
  /\ args' = analyzerArgs("Analyze the following requirement", merged)
  /\ UNCHANGED << pipelineVars, parserVars, streamVars, analyzerVars, gitVars, env, argv, merged, interactiveRun, ptyAdapter >>

NextConfig ==
  \/ ProgramAction
  \/ RunClaudeInvocation
  \/ AnalyzerInvocation

SpecConfig == InitConfig /\ [][NextConfig]_vars

\* --------------------------------------------- the branch stage on its own
\* runPipeline from its entry to the start of the Implement stage, in any
\* repository: the configurations drawn differ in the settings the branch
\* stage reads.
BranchConfigs ==
  { cfg \in Config : cfg.reviewIterations = 2 /\ ~cfg.skipTests }

BranchAdaptiveReplies ==
  { EmptyAdaptiveReply } \cup
  { r \in AdaptiveReplies :
      /\ r.skipSimplify = "true" /\ r.skipReview = "" /\ r.skipSolid = ""
      /\ r.skipTests = "" /\ r.skipChangelog = "" /\ r.reviewDepth = ""
      /\ r.iterations = NoIterations }

RunPipelineOnBranches ==
  /\ exitStatus = Alive
  /\ pc = "idle"
  /\ runPipeline(BranchConfigs, BranchGitEnv)

AnalyzeStepsCloseOnBranches == AnalyzeStepsCloseOn(BranchAdaptiveReplies, BranchGitEnv)

AnalyzeStepsErrorOnBranches == AnalyzeStepsErrorOn(BranchGitEnv)

AnalyzeRequirementCloseOnBranches ==
  AnalyzeRequirementCloseOn(BranchAnalysisReplies, BranchGitEnv)

AnalyzeRequirementErrorOnBranches == AnalyzeRequirementErrorOn(BranchGitEnv)

NextBranch ==
  \/ RunPipelineOnBranches
  \/ AnalyzeStepsCloseOnBranches
  \/ AnalyzeStepsErrorOnBranches
  \/ AnalyzeRequirementCloseOnBranches
  \/ AnalyzeRequirementErrorOnBranches

SpecBranch == Init /\ [][NextBranch]_vars

\* ---------------------------------------------------- runs that must end
\* One run of the pipeline with a review loop of two iterations, started
\* on a main or a topic branch, with and without taken branch names.
LiveConfigs ==
  { cfg \in BranchConfigs : ~cfg.implementationOnly }

\* the suggested names and the first two numbered names are taken
LiveTakenLines ==
  TakenLines \cup
  { localLine(feature \o << "/" >> \o AddUserAuthentication \o << "-" >> \o String(n)) :
      n \in 1..2 }

LiveGitEnv ==
  [ currentBranch : { << "m", "a", "i", "n" >>, << "t", "o", "p", "i", "c" >> },
    localLines : { {}, TakenLines, LiveTakenLines },
    remoteLines : { {} },
    checkoutOk : BOOLEAN ]

RunPipelineLive ==
  /\ exitStatus = Alive
  /\ pc = "idle"
  /\ runPipeline(LiveConfigs, LiveGitEnv)

AnalyzeStepsExits ==
  \/ AnalyzeStepsCloseOn(BranchAdaptiveReplies, LiveGitEnv)
  \/ AnalyzeStepsErrorOn(LiveGitEnv)

AnalyzeRequirementExits ==
  \/ AnalyzeRequirementCloseOn(RunAnalysisReplies, LiveGitEnv)
  \/ AnalyzeRequirementErrorOn(LiveGitEnv)

ClaudeExits == ClaudeClose \/ ClaudeError

NextLive ==
  \/ RunPipelineLive
  \/ AnalyzeStepsExits
  \/ AnalyzeRequirementExits
  \/ ClaudeExits
  \/ OnSIGINT
  \/ OnSIGTERM
  \/ ProcessEnd

\* Every spawned agent process eventually exits (its close or its error
\* handler runs), and Node ends the process once runPipeline has returned
\* and nothing is left on the event loop.
AgentsExit ==
  /\ WF_vars(ClaudeExits)
  /\ WF_vars(AnalyzeStepsExits)
  /\ WF_vars(AnalyzeRequirementExits)
  /\ WF_vars(ProcessEnd)

SpecLive == Init /\ [][NextLive]_vars /\ AgentsExit


\* ------------------------------------------- the git utilities on their own
\* the replies whose analyses the name generation is given
NamedAnalysisReplies ==
  { r \in AnalysisReplies :
      r.isTrivial = "false" /\ r.shortDesc \in {<< >>, AddUserAuthentication} }

\* the suggested name (k = 0) or its k-th numbered variant
listedName(found, k) ==
  IF k = 0 THEN found.suggestedBranchName ELSE numberedBranchName(found, k)

\* The two leading characters of a line of 'git branch --list': blank, '* '
\* for the current branch, '+ ' for a branch checked out in another worktree.
LineMarks == { << " ", " " >>, << "*", " " >>, << "+", " " >> }

\* 'git branch --list' when the names numbered in taken exist, the one
\* numbered marked carrying the mark
localLinesOf(found, taken, marked, mark) ==
  { (IF k = marked THEN mark ELSE << " ", " " >>) \o listedName(found, k) : k \in taken }

\* 'git branch -r' when the names numbered in taken exist on origin
remoteLinesOf(found, taken) ==
  { << " ", " ", "o", "r", "i", "g", "i", "n", "/" >> \o listedName(found, k) : k \in taken }
    \cup { << " ", " ", "o", "r", "i", "g", "i", "n", "/", "H", "E", "A", "D",
             " ", "-", ">", " ", "o", "r", "i", "g", "i", "n", "/", "m", "a", "i", "n" >> }

\* Lines of 'git branch -r' for branches that are none of the names the
\* collision loop asks about: one whose name holds the short description, one
\* whose last segment is part of the short description, one unrelated.
OtherRemoteLines(found) ==
  LET origin == << " ", " ", "o", "r", "i", "g", "i", "n", "/" >>
  IN { origin \o << "w", "i", "p", "/" >> \o found.shortDescription \o << "-", "v", "2" >>,
       origin \o << "o", "l", "d", "/" >> \o SubSeq(found.shortDescription, 1, 3),
       origin \o << "r", "e", "l", "e", "a", "s", "e", "/", "1" >> }

\* the characters the names handed to createBranch are made of
NameAlphabet == { "a", "Z", "7", "/", "_", "-", ";", " ", "$", "\n", "." }

Names == UNION { [1..n -> NameAlphabet] : n \in 0..MaxNameLength }

\* the branch stage asks for a unique name in some repository, or some name is
\* handed to createBranch
InitGit ==
  /\ InitPipeline
  /\ parseInput = EmptyAdaptiveReply
  /\ parsed = NoRec
  /\ NoStream
  /\ NoAnalyzer
  /\ NoCommandLine
  /\ NoInteractive
  /\ NoPty
  /\ gitOutcome = NoGitOutcome
  /\ \/ \E reply \in NamedAnalysisReplies,
            local \in SUBSET (0..MaxTaken), remote \in SUBSET (0..1),
            marked \in 0..MaxTaken, mark \in LineMarks :
          LET found == parseAnalysisResponse(reply)
          IN /\ marked \in local \/ (marked = 0 /\ mark = << " ", " " >>)
             /\ gitCall =
                  [NoGitCall EXCEPT
                     !.fn = "generateUniqueBranchName",
                     !.found = found,
                     !.existing = { listedName(found, k) : k \in local \cup remote },
                     !.g = [ localLines |-> localLinesOf(found, local, marked, mark),
                             remoteLines |-> remoteLinesOf(found, remote),
                             checkoutOk |-> FALSE ]]
     \/ \E name \in Names, checkoutOk \in BOOLEAN :
          gitCall = [NoGitCall EXCEPT !.fn = "createBranch", !.name = name,
                                      !.checkoutOk = checkoutOk]
     \/ \E reply \in NamedAnalysisReplies, local \in SUBSET (0..1),
            dryRun \in BOOLEAN, checkoutOk \in BOOLEAN :
          LET found == parseAnalysisResponse(reply)
          IN \E similar \in SUBSET OtherRemoteLines(found) :
               gitCall =
                 [NoGitCall EXCEPT
                    !.fn = "stepBranchManagement",
                    !.found = found,
                    !.current = main,
                    !.dryRun = dryRun,
                    !.existing = { listedName(found, k) : k \in local },
                    !.g = [ localLines |-> localLinesOf(found, local, 0, << " ", " " >>),
                            remoteLines |-> remoteLinesOf(found, {}) \cup similar,
                            checkoutOk |-> checkoutOk ]]

\* the loop of stepBranchManagement that generates a unique branch name
GenerateUniqueBranchName ==
  /\ gitCall.fn = "generateUniqueBranchName"
  /\ ~gitOutcome.done
  /\ LET unique == generateUniqueBranchName(gitCall.found, gitCall.g)
     IN gitOutcome' = [NoGitOutcome EXCEPT !.done = TRUE,
                                          !.branchName = unique.branchName,
                                          !.counter = unique.counter,
                                          !.probes = unique.probes]
  /\ UNCHANGED << pipelineVars, parserVars, streamVars, analyzerVars, configVars, gitCall, interactiveRun, ptyAdapter >>

\* createBranch(branchName)
CreateBranch ==
  /\ gitCall.fn = "createBranch"
  /\ ~gitOutcome.done
  /\ LET creation == createBranch(gitCall.name, gitCall.checkoutOk)
     IN gitOutcome' = [NoGitOutcome EXCEPT !.done = TRUE,
                                          !.command = creation.command,
                                          !.created = creation.created]
  /\ UNCHANGED << pipelineVars, parserVars, streamVars, analyzerVars, configVars, gitCall, interactiveRun, ptyAdapter >>

\* stepBranchManagement from the conflict check to its return, on main
PlaceBranch ==
  /\ gitCall.fn = "stepBranchManagement"
  /\ ~gitOutcome.done
  /\ LET placement == branchPlacement([dryRun |-> gitCall.dryRun], gitCall.current,
                                      gitCall.found, gitCall.g)
     IN gitOutcome' = [NoGitOutcome EXCEPT !.done = TRUE,
                                          !.branchName = placement.branchName,
                                          !.created = placement.branchCreated,
                                          !.createBranchCalls = placement.createBranchCalls,
                                          !.probes = placement.probes,
                                          !.conflicts = placement.conflicts]
  /\ UNCHANGED << pipelineVars, parserVars, streamVars, analyzerVars, configVars, gitCall, interactiveRun, ptyAdapter >>

NextGit ==
  \/ GenerateUniqueBranchName
  \/ CreateBranch
  \/ PlaceBranch

SpecGit == InitGit /\ [][NextGit]_vars

\* ---------------------------------------------- the analyzers on their own
\* An analyzer has spawned its subprocess, which ends in a 'close' event with
\* any exit code and any output, or in an 'error' event.
InitAnalyzer ==
  /\ InitPipeline
  /\ parseInput = EmptyAdaptiveReply
  /\ parsed = NoRec
  /\ NoStream
  /\ resolved = NoResolved
  /\ NoCommandLine
  /\ NoGit
  /\ NoInteractive
  /\ NoPty
  /\ \/ analyzerCall \in
          [ analyzer : {"analyzeSteps"}, event : {"close"},
            exitCode : AgentExitCodes \cup {NullExitCode},
            output : AdaptiveReplies \cup {EmptyAdaptiveReply} ]
     \/ analyzerCall \in
          [ analyzer : {"analyzeRequirement"}, event : {"close"},
            exitCode : AgentExitCodes \cup {NullExitCode},
            output : AnalysisReplies ]
     \/ analyzerCall \in
          [ analyzer : {"analyzeSteps", "analyzeRequirement"}, event : {"error"},
            exitCode : {NullExitCode}, output : {EmptyAdaptiveReply} ]

\* analyzeSteps' promise is settled by the subprocess event
AnalyzeStepsSettles ==
  /\ analyzerCall.analyzer = "analyzeSteps"
  /\ ~resolved.settled
  /\ resolved' =
       [ settled |-> TRUE, rejected |-> FALSE,
         value |-> IF analyzerCall.event = "close"
                     THEN analyzeStepsOnClose(analyzerCall.exitCode, analyzerCall.output)
                     ELSE analyzeStepsOnError ]
  /\ UNCHANGED << pipelineVars, parserVars, streamVars, analyzerCall, configVars, gitVars, interactiveRun, ptyAdapter >>

\* analyzeRequirement's promise is settled by the subprocess event
AnalyzeRequirementSettles ==
  /\ analyzerCall.analyzer = "analyzeRequirement"
  /\ ~resolved.settled
  /\ resolved' =
       [ settled |-> TRUE, rejected |-> FALSE,
         value |-> IF analyzerCall.event = "close"
                     THEN analyzeRequirementOnClose(analyzerCall.exitCode, analyzerCall.output)
                     ELSE analyzeRequirementOnError ]
  /\ UNCHANGED << pipelineVars, parserVars, streamVars, analyzerCall, configVars, gitVars, interactiveRun, ptyAdapter >>

NextAnalyzer ==
  \/ AnalyzeStepsSettles
  \/ AnalyzeRequirementSettles

SpecAnalyzer == InitAnalyzer /\ [][NextAnalyzer]_vars

\* ------------------------------------------- the interactive pipeline
\* runPipeline of the six-step pipeline that asks for a confirmation after
\* a step; interactiveRun holds the position of the one run:
\*   at       the step whose agent is awaited, "confirm" while the prompt
\*            is open, "completed" or "exited"
\*   after    the step whose confirmation is open
\*   started  the steps started so far, in order
\*   prompts  the number of prompts shown
\*   answers  the keys typed, each with the number of steps started before it
MaxInteractiveReviews == 2

InteractiveSteps ==
  { "implement", "review", "solid", "test", "commit", "changelog" }

\* the keys of the expand prompt and the value each returns
ConfirmKeys == { "y", "n", "s", "q" }

ConfirmResult ==
  [ y |-> "continue", n |-> "quit", s |-> "skip", q |-> "quit" ]

\* the step the code calls after the given one outside the review loop
following ==
  [ solid |-> "test", test |-> "commit", commit |-> "changelog" ]

startStep(r, stage) ==
  [ r EXCEPT !.at = stage, !.started = Append(@, stage) ]

interactiveExit(r, code) ==
  [ r EXCEPT !.at = "exited", !.exitStatus = code ]

\* the head of the for loop with the given value of i
reviewLoopFrom(r, n) ==
  IF n <= r.reviewIterations
    THEN startStep([ r EXCEPT !.i = n ], "review")
    ELSE startStep(r, "solid")

\* what runPipeline does with the value confirm returned after the step
confirmed(r, stage, result) ==
  IF result = "quit" THEN interactiveExit(r, 0)
  ELSE IF stage = "implement" THEN reviewLoopFrom(r, 1)
  ELSE IF stage = "review"
    THEN IF result = "skip" THEN startStep(r, "solid")
                            ELSE reviewLoopFrom(r, r.i + 1)
  ELSE startStep(r, following[stage])

\* confirm: in auto mode it returns Continue at once, otherwise the prompt
\* opens
confirm(r, stage) ==
  IF r.autoMode
    THEN confirmed(r, stage, "continue")
    ELSE [ r EXCEPT !.at = "confirm", !.after = stage, !.prompts = @ + 1 ]

interactiveVars == << interactiveRun >>

InitInteractive ==
  /\ InitPipeline
  /\ NoAnalyzer
  /\ NoStream
  /\ NoCommandLine
  /\ NoGit
  /\ parseInput = EmptyAdaptiveReply
  /\ parsed = NoRec
  /\ NoInteractive
  /\ NoPty

OutsideInteractive ==
  UNCHANGED << pipelineVars, parserVars, streamVars, analyzerVars,
               configVars, gitVars, ptyAdapter >>

\* runPipeline up to the call of stepImplement
runInteractivePipeline ==
  /\ interactiveRun.at = "idle"
  /\ \E autoMode \in BOOLEAN, n \in 1..MaxInteractiveReviews :
       interactiveRun' =
         startStep([ NoInteractiveRun EXCEPT !.autoMode = autoMode,
                                             !.reviewIterations = n ],
                   "implement")
  /\ OutsideInteractive

\* the awaited step returns: runPipeline runs up to its next await
InteractiveStepReturns ==
  /\ interactiveRun.at \in InteractiveSteps
  /\ \E success \in BOOLEAN, noIssuesFound \in BOOLEAN :
       LET r == interactiveRun
           stage == r.at IN
       interactiveRun' =
         IF ~success THEN interactiveExit(r, 1)
         ELSE IF stage = "review" /\ noIssuesFound THEN startStep(r, "solid")
         ELSE IF stage = "changelog" THEN [ r EXCEPT !.at = "completed" ]
         ELSE confirm(r, stage)
  /\ OutsideInteractive

\* the user types a key at the open prompt
PromptAnswered ==
  /\ interactiveRun.at = "confirm"
  /\ \E key \in ConfirmKeys :
       LET r == interactiveRun
           typed == [ r EXCEPT !.answers =
                        Append(@, [ key |-> key, after |-> r.after,
                                    before |-> Len(r.started) ]) ] IN
       interactiveRun' = confirmed(typed, r.after, ConfirmResult[key])
  /\ OutsideInteractive

\* SIGINT or SIGTERM arrives while the run is under way
InteractiveSignal ==
  /\ interactiveRun.at \notin { "idle", "completed", "exited" }
  /\ interactiveRun' = interactiveExit(interactiveRun, 130)
  /\ OutsideInteractive

NextInteractive ==
  \/ runInteractivePipeline
  \/ InteractiveStepReturns
  \/ PromptAnswered
  \/ InteractiveSignal

SpecInteractive == InitInteractive /\ [][NextInteractive]_vars

\* ------------------------------------------------- the PTY-based adapter
\* runClaude of the adapter that runs the agent in a pseudo-terminal, in
\* its two variants: "plain" (no handler of its own for SIGINT) and
\* "sigint" (a SIGINT handler per invocation). ptyAdapter holds the host's
\* terminal and listeners:
\*   isTTY, rawMode      process.stdin.isTTY and the raw mode of stdin
\*   stdinListeners      'data' listeners of process.stdin
\*   resizeListeners     'resize' listeners of process.stdout
\*   sigintListeners     SIGINT listeners the adapter added to process
\*   interrupted         the current invocation's local flag
\*   invocations         the calls of runClaude so far
\*   returned            the results of the invocations that returned
MaxPtyInvocations == 4

SIGINT_CODE == 2

PtyVariants == { "plain", "sigint" }

PtyExitCodes == { EXIT_SUCCESS, 1, SIGINT_CODE, EXIT_INTERRUPTED }

\* from the promise's executor to the last listener added
ptySpawn(p) ==
  [ p EXCEPT !.child = "running",
             !.interrupted = FALSE,
             !.rawMode = IF p.isTTY THEN TRUE ELSE @,
             !.stdinListeners = @ + 1,
             !.resizeListeners = @ + 1,
             !.sigintListeners = IF p.variant = "sigint" THEN @ + 1 ELSE @,
             !.invocations = @ + 1 ]

\* A faulty cleanup: the resize listener stays.
cleanupKeepsResize(p) ==
  [ p EXCEPT !.stdinListeners = @ - 1,
             !.sigintListeners = IF p.variant = "sigint" THEN @ - 1 ELSE @,
             !.rawMode = IF p.isTTY THEN FALSE ELSE @ ]

cleanup(p) ==
  [ p EXCEPT !.stdinListeners = @ - 1,
             !.resizeListeners = @ - 1,
             !.sigintListeners = IF p.variant = "sigint" THEN @ - 1 ELSE @,
             !.rawMode = IF p.isTTY THEN FALSE ELSE @ ]

\* the exit counts as an interruption
wasInterrupted(p, exitCode, signal) ==
  IF p.variant = "sigint"
    THEN \/ p.interrupted
         \/ signal = SIGINT_CODE
         \/ exitCode = EXIT_INTERRUPTED
         \/ exitCode = SIGINT_CODE
    ELSE exitCode = EXIT_INTERRUPTED \/ exitCode = 2

\* ptyProcess.onExit
ptyOnExit(p, exitCode, signal) ==
  LET q == [ cleanup(p) EXCEPT !.child = "none" ] IN
  IF wasInterrupted(p, exitCode, signal)
    THEN [ q EXCEPT !.exitStatus = EXIT_INTERRUPTED ]
    ELSE [ q EXCEPT !.returned = Append(@, exitCode = EXIT_SUCCESS) ]

InitPty ==
  /\ InitPipeline
  /\ NoAnalyzer
  /\ NoStream
  /\ NoCommandLine
  /\ NoGit
  /\ NoInteractive
  /\ parseInput = EmptyAdaptiveReply
  /\ parsed = NoRec
  /\ \E variant \in PtyVariants, isTTY \in BOOLEAN :
       ptyAdapter = [ NoPtyAdapter EXCEPT !.variant = variant, !.isTTY = isTTY ]

OutsidePty ==
  UNCHANGED << pipelineVars, parserVars, streamVars, analyzerVars,
               configVars, gitVars, interactiveRun >>

PtyAlive == ptyAdapter.exitStatus = -1

\* a step calls runClaude
PtyRunClaude ==
  /\ PtyAlive
  /\ ptyAdapter.child = "none"
  /\ ptyAdapter.invocations < MaxPtyInvocations
  /\ \E dryRun \in BOOLEAN :
       ptyAdapter' =
         IF dryRun
           THEN [ ptyAdapter EXCEPT !.invocations = @ + 1,
                                    !.returned = Append(@, TRUE) ]
           ELSE ptySpawn(ptyAdapter)
  /\ OutsidePty

\* the stdin 'data' listener: a key typed while the agent runs
PtyStdinData ==
  /\ PtyAlive
  /\ ptyAdapter.stdinListeners > 0
  /\ \E ctrlC \in BOOLEAN :
       ptyAdapter' =
         IF ptyAdapter.variant = "sigint" /\ ctrlC
           THEN [ ptyAdapter EXCEPT !.interrupted = TRUE ]
           ELSE ptyAdapter
  /\ OutsidePty

\* the adapter's own SIGINT handler
PtySigint ==
  /\ PtyAlive
  /\ ptyAdapter.sigintListeners > 0
  /\ ptyAdapter' = [ ptyAdapter EXCEPT !.interrupted = TRUE ]
  /\ OutsidePty

\* the agent's pseudo-terminal process exits
PtyExit ==
  /\ PtyAlive
  /\ ptyAdapter.child = "running"
  /\ \E exitCode \in PtyExitCodes, signal \in { 0, SIGINT_CODE } :
       ptyAdapter' = ptyOnExit(ptyAdapter, exitCode, signal)
  /\ OutsidePty

NextPty ==
  \/ PtyRunClaude
  \/ PtyStdinData
  \/ PtySigint
  \/ PtyExit

SpecPty == InitPty /\ [][NextPty]_vars

\* ------------------------------------------------------------- properties
Last(seq) == seq[Len(seq)]

\* the position of a stage in the pipeline
Rank(stage) ==
  CASE stage = "branch" -> 1
    [] stage = "implement" -> 2
    [] stage = "simplify" -> 3
    [] stage = "review" -> 4
    [] stage = "solid" -> 5
    [] stage = "test" -> 6
    [] stage = "commit" -> 7
    [] stage = "changelog" -> 8

\* the result runPipeline got for the given stage call, if any
ResultsOf(stage, iter) ==
  {k \in DOMAIN results : results[k].stage = stage /\ results[k].iter = iter}

\* the most recent subprocess was the agent of review round lastExit.iter and
\* it ended with exit code 0, and the host is still running
CleanExitOfReviewRound ==
  /\ exitStatus = Alive
  /\ lastExit.caller = "runClaude"
  /\ lastExit.stage = "review"
  /\ lastExit.kind = "exit"
  /\ lastExit.code = EXIT_SUCCESS

\* C1: within one run the stages start in the order branch management,
\* implement, simplify, review rounds, SOLID, test, commit, changelog: no stage
\* starts after a later one has started, only review starts more than once,
\* and its rounds start as 1, 2, 3, ... each right after the one before.
StagesStartInOrder ==
  /\ \A j, k \in DOMAIN started :
       j < k =>
         /\ Rank(started[j].stage) <= Rank(started[k].stage)
         /\ Rank(started[j].stage) = Rank(started[k].stage) =>
              /\ started[k].stage = "review"
              /\ started[j].iter < started[k].iter
  /\ \A k \in DOMAIN started :
       started[k].stage = "review" =>
         IF k > 1 /\ started[k - 1].stage = "review"
           THEN started[k].iter = started[k - 1].iter + 1
           ELSE started[k].iter = 1

\* a run that went through all eight stages with three review rounds
AllStagesStarted ==
  /\ pc = "completed"
  /\ Len(started) = 10
  /\ {started[k].stage : k \in DOMAIN started} = RunClaudeStages \cup {"branch"}
  /\ \E k \in DOMAIN started : started[k] = [stage |-> "review", iter |-> 3]

\* C2: a stage (or review round) that returns success = false is the last
\* thing the run did: the host has exited with status 1 and no stage was
\* started after the failed one; the completion message is shown only when
\* every stage that was started returned success.
FailFast ==
  /\ \A k \in DOMAIN results :
       ~results[k].success =>
         /\ k = Len(results)
         /\ pc = "exited"
         /\ exitStatus = EXIT_CODE_FAILURE
         /\ ~completionShown
         /\ Last(started) = [stage |-> results[k].stage, iter |-> results[k].iter]
  /\ completionShown =>
       /\ Len(results) = Len(started)
       /\ \A k \in DOMAIN results : results[k].success

\* the second of three review rounds failed
SecondReviewRoundFailed ==
  /\ exitStatus = EXIT_CODE_FAILURE
  /\ Len(results) > 0
  /\ Last(results).stage = "review"
  /\ Last(results).iter = 2
  /\ ~Last(results).success
  /\ Last(started) = [stage |-> "review", iter |-> 2]

\* C3: with N the iteration bound of the run, after review round k has
\* succeeded: if its reply reports no issues the loop is left after exactly k
\* rounds and the run goes on to the SOLID step (step 6); if the reply reports
\* issues and k < N, round k+1 starts; if it reports issues and k = N, the
\* loop is left after exactly N rounds.
ReviewLoopRunsToBoundOrNoIssues ==
  CleanExitOfReviewRound =>
    LET k == lastExit.iter
        nextRound == [stage |-> "review", iter |-> k + 1]
    IN /\ k <= reviewIterations
       /\ IF detectNoIssues(lastExit.reply)
            THEN /\ Last(started) # nextRound
                 /\ Last(started).stage = "solid" \/ "solid" \in skipped
            ELSE IF k < reviewIterations
              THEN Last(started) = nextRound
              ELSE Last(started) # nextRound

\* C4: when the agent of a review round replies with a no-issues phrase and
\* exits with code 0, runClaude's result carries the reply as its output,
\* stepReview returns noIssuesFound = true, and no further round starts.
NoIssuesReplyEndsReview ==
  (CleanExitOfReviewRound /\ detectNoIssues(lastExit.reply)) =>
    /\ \E k \in ResultsOf("review", lastExit.iter) :
         /\ results[k].success
         /\ results[k].output = lastExit.reply
         /\ results[k].noIssuesFound
    /\ Last(started) # [stage |-> "review", iter |-> lastExit.iter + 1]

\* C5: whichever stage was running, once an agent subprocess has ended with
\* exit code 130 the host has exited with status 130 (so nothing started
\* after it).
InterruptCodeAbortsRun ==
  (lastExit.kind = "exit" /\ lastExit.code = EXIT_INTERRUPTED) =>
    /\ pc = "exited"
    /\ exitStatus = EXIT_CODE_INTERRUPT

\* C6 as stated: an agent exit code other than 0 and 130 makes runClaude
\* resolve with success = false without runClaude ending the host (the stage
\* then fails the run with status 1), and code 0 resolves success = true.
OtherCodesResolveFailure ==
  (lastExit.caller = "runClaude" /\ lastExit.kind = "exit") =>
    IF lastExit.code = EXIT_SUCCESS
      THEN \E k \in ResultsOf(lastExit.stage, lastExit.iter) : results[k].success
      ELSE lastExit.code # EXIT_INTERRUPTED =>
             /\ \E k \in ResultsOf(lastExit.stage, lastExit.iter) : ~results[k].success
             /\ exitStatus = EXIT_CODE_FAILURE

\* C6: an agent exit code other than 0, 2 and 130 makes runClaude resolve
\* with success = false without ending the host (the stage then fails the run
\* with status 1); code 0 resolves success = true; codes 2 and 130 resolve
\* nothing and end the host with status 130.
ExitCodeMapping ==
  (lastExit.caller = "runClaude" /\ lastExit.kind = "exit") =>
    IF lastExit.code = EXIT_SUCCESS
      THEN \E k \in ResultsOf(lastExit.stage, lastExit.iter) : results[k].success
      ELSE IF lastExit.code \in {2, EXIT_INTERRUPTED}
        THEN /\ ResultsOf(lastExit.stage, lastExit.iter) = {}
             /\ exitStatus = EXIT_INTERRUPTED
        ELSE /\ \E k \in ResultsOf(lastExit.stage, lastExit.iter) : ~results[k].success
             /\ exitStatus = EXIT_CODE_FAILURE

\* the agent of the commit stage ended with exit code 3
AgentExitedWithOtherCode ==
  /\ lastExit.caller = "runClaude"
  /\ lastExit.kind = "exit"
  /\ lastExit.stage = "commit"
  /\ lastExit.code = 3
  /\ exitStatus = EXIT_CODE_FAILURE

\* C7: when the agent of a stage was killed by a signal (it has no exit
\* code), the host has exited with status 130, not 1.
SignalKilledAgentIsInterrupt ==
  (lastExit.caller = "runClaude" /\ lastExit.kind = "signal") =>
    exitStatus = EXIT_CODE_INTERRUPT

\* C8: there is no state in which the host has exited and a subprocess it
\* spawned is still running.
NoOrphanSubprocess == ~(exitStatus # Alive /\ child = "running")

\* C9: after any number of runPipeline calls in one process exactly one
\* SIGINT listener and one SIGTERM listener are registered, and a delivered
\* signal runs one listener body and ends the host with status 130.
HandlersRegisteredOnce ==
  /\ runs = 0 => \A sig \in DOMAIN listeners : listeners[sig] = 0
  /\ runs >= 1 =>
       /\ signalHandlersRegistered
       /\ \A sig \in DOMAIN listeners : listeners[sig] = 1
  /\ signalsHandled <= 1
  /\ signalsHandled = 1 => (pc = "exited" /\ exitStatus = EXIT_CODE_INTERRUPT)

\* the second run of the process was interrupted by a signal
SecondRunInterrupted ==
  /\ runs = 2
  /\ signalsHandled = 1
  /\ exitStatus = EXIT_CODE_INTERRUPT
  /\ listeners["SIGINT"] = 1
  /\ listeners["SIGTERM"] = 1

\* C10: once the review loop's bound N is computed: with adaptive execution on
\* and implementation-only off (whatever the other flags, skip-branch-management
\* included) there is a recommendation and N is its reviewIterations; with
\* adaptive execution off N is the configured reviewIterations.
AdaptiveBoundIsRecommended ==
  (exitStatus = Alive /\ reviewIterations > 0) =>
    /\ (config.adaptiveExecution /\ ~config.implementationOnly) =>
         /\ rec.present
         /\ reviewIterations = rec.reviewIterations
    /\ ~config.adaptiveExecution => reviewIterations = config.reviewIterations

\* stepTest has been called in this run
TestStarted == \E k \in DOMAIN started : started[k].stage = "test"

\* runPipeline has gone past step 7 of this run
PastStep7 ==
  \/ pc \in {"commit", "changelog", "completed"}
  \/ "commit" \in skipped

\* C11: the test stage calls the agent exactly when none of
\* implementation-only mode, the skip-tests flag and the recommendation's
\* skipTests holds; when one holds the stage is skipped, makes no agent call
\* and leaves no result that could fail the run.
TestStageRunsIffNoSkipCondition ==
  /\ exitStatus = Alive =>
       LET skipCondition ==
             config.implementationOnly \/ config.skipTests \/ rec.skipTests
       IN /\ TestStarted => ~skipCondition
          /\ "test" \in skipped => skipCondition
          /\ pc = "test" => (child = "running" /\ ~skipCondition)
          /\ PastStep7 => (IF skipCondition THEN "test" \in skipped ELSE TestStarted)
  /\ "test" \in skipped => (~TestStarted /\ ResultsOf("test", 0) = {})

\* the test agent is running in a run whose recommendation did not skip tests
TestAgentRunningUnderAdaptive ==
  /\ pc = "test"
  /\ child = "running"
  /\ config.adaptiveExecution
  /\ rec.present
  /\ ~rec.skipTests

\* C12 as stated: when the test stage is skipped the reason reported is the
\* first that holds of implementation-only mode, the skip-tests flag, the
\* recommendation's skipTests.
SkipReasonFlagBeforeAdaptive ==
  (exitStatus = Alive /\ "test" \in skipped) =>
    skipTestsReason =
      IF config.implementationOnly THEN "implementation-only mode"
      ELSE IF config.skipTests THEN "--skip-tests"
      ELSE "adaptive execution"

\* C12: when the test stage is skipped the reason reported is the first that
\* holds of implementation-only mode, the recommendation's skipTests, the
\* skip-tests flag.
SkipReasonAdaptiveBeforeFlag ==
  (exitStatus = Alive /\ "test" \in skipped) =>
    skipTestsReason =
      IF config.implementationOnly THEN "implementation-only mode"
      ELSE IF rec.skipTests THEN "adaptive execution"
      ELSE "--skip-tests"

\* the test stage was skipped with both the flag and the recommendation asking
\* for it
TestSkippedByFlagAndRecommendation ==
  /\ exitStatus = Alive
  /\ "test" \in skipped
  /\ ~config.implementationOnly
  /\ config.skipTests
  /\ rec.skipTests
  /\ skipTestsReason = "adaptive execution"

\* the stages an implementation-only run with n review rounds starts
ImplementationOnlyStages(n) ==
  << [stage |-> "implement", iter |-> 0] >>
    \o [k \in 1..n |-> [stage |-> "review", iter |-> k]]
    \o << [stage |-> "solid", iter |-> 0] >>

DryRunNeverSpawnsAgent ==
  (exitStatus = Alive /\ config.dryRun) =>
    /\ child = "none"
    /\ lastExit = NoExit
    /\ pc = "completed"
    /\ completionShown
    /\ Len(results) = Len(started)
    /\ \A k \in DOMAIN results : results[k].success
    /\ (\E k \in DOMAIN started : started[k].stage = "branch") =>
         rec = (IF config.adaptiveExecution THEN DryRunStepRecommendation ELSE NoRec)

\* a dry run with adaptive execution went through every stage
DryRunCompletedAllStages ==
  /\ pc = "completed"
  /\ config.dryRun
  /\ config.adaptiveExecution
  /\ Len(started) = 9
  /\ rec.present

\* C15: in dry-run mode the branch-management stage runs no external process
\* (no agent call and no git command), creates no branch and returns success.
DryRunBranchStageSpawnsNothing ==
  (exitStatus = Alive /\ config.dryRun) =>
    /\ child = "none"
    /\ ~gitCommandsRun
    /\ ~branchCreated
    /\ \A k \in ResultsOf("branch", 0) : results[k].success

\* the output carries none of the labelled fields the parser looks for
Unlabelled(output) ==
  /\ ~output.empty
  /\ output.skipSimplify = ""
  /\ output.skipReview = ""
  /\ output.skipSolid = ""
  /\ output.skipTests = ""
  /\ output.skipChangelog = ""
  /\ output.reviewDepth = ""
  /\ output.iterations = NoIterations
  /\ output.reasoning = ""

SpawnErrorIsFailure ==
  (lastExit.caller = "runClaude" /\ lastExit.kind = "error") =>
    /\ \E k \in ResultsOf(lastExit.stage, lastExit.iter) :
         /\ k = Len(results)
         /\ ~results[k].success
    /\ pc = "exited"
    /\ exitStatus = EXIT_CODE_FAILURE
    /\ exitStatus # EXIT_INTERRUPTED

\* the agent of the implement stage could not be spawned
ImplementSpawnFailed ==
  /\ lastExit.caller = "runClaude"
  /\ lastExit.kind = "error"
  /\ lastExit.stage = "implement"
  /\ exitStatus = EXIT_CODE_FAILURE

\* the stream handler's state when the invocation began
StreamAtSpawn ==
  [ outputBuffer |-> << >>, lastPrintedMessage |-> lastPrintedAtSpawn,
    printed |-> << >>, handed |-> << >> ]

\* the events of the lines handed to processStreamEvent so far
Events == [k \in DOMAIN handed |-> JSONparse(handed[k])]

\* the event printed something or cleared the dedup memory
Significant(event) ==
  \/ event.type \in {"init", "tool_use"}
  \/ event.type = "text" /\ event.text # << >>

\* the last significant event before event k, 0 if there is none
PreviousSignificant(k) ==
  LET before == {j \in 1..(k - 1) : Significant(Events[j])}
  IN IF before = {} THEN 0 ELSE CHOOSE j \in before : \A l \in before : l <= j

\* tool_use event k repeats the most recently printed tool summary with no
\* text and no session start in between
RepeatsLastSummary(k) ==
  LET j == PreviousSignificant(k)
  IN IF j = 0
       THEN formatToolCall(Events[k].name) = lastPrintedAtSpawn
       ELSE Events[j].type = "tool_use" /\ Events[j].name = Events[k].name

\* what event k puts on the console under the rule of C16
ExpectedOutput(k) ==
  CASE Events[k].type = "init" -> << [kind |-> "banner", body |-> << >>] >>
    [] Events[k].type = "text" /\ Events[k].text # << >> ->
         << [kind |-> "text", body |-> Events[k].text] >>
    [] Events[k].type = "tool_use" /\ ~RepeatsLastSummary(k) ->
         << [kind |-> "tool", body |-> formatToolCall(Events[k].name)] >>
    [] OTHER -> << >>

RECURSIVE ExpectedConsole(_)
ExpectedConsole(n) ==
  IF n = 0 THEN << >> ELSE ExpectedConsole(n - 1) \o ExpectedOutput(n)

RECURSIVE Replay(_, _)
\* processStreamEvent applied to the lines in turn
Replay(st, lines) ==
  IF lines = << >> THEN st
  ELSE Replay(processStreamEvent(st, Head(lines)), Tail(lines))

\* the whole stream delivered as one chunk, then the close event
OneChunkRun == flushOutputBuffer(onData(StreamAtSpawn, streamText))

\* C17: however the stream was cut into chunks, once the close event has
\* fired the lines handed to processStreamEvent and the console output are
\* those of the whole stream arriving as one chunk (a last line without a line
\* feed included).
ChunkingDoesNotChangeLines ==
  streamResult.closed =>
    /\ handed = OneChunkRun.handed
    /\ printed = OneChunkRun.printed

\* the line is JSON of a shape processStreamEvent acts on
Recognised(line) == JSONparse(line).type \in {"init", "text", "tool_use"}

\* C18: a line that is not JSON, or is JSON of an unrecognised shape, prints
\* nothing and changes nothing for the lines after it: console output and
\* dedup memory are those of the recognised lines alone, and the result of the
\* invocation is decided by the exit code alone.
MalformedLinesLeaveNoTrace ==
  LET clean == Replay(StreamAtSpawn, SelectSeq(handed, Recognised))
  IN /\ printed = clean.printed
     /\ lastPrintedMessage = clean.lastPrintedMessage
     /\ \A k \in DOMAIN printed : printed[k].kind \in {"banner", "text", "tool"}
     /\ streamResult.closed =>
          LET r == runClaudeOnClose(streamResult.exitCode)
          IN /\ streamResult.exit = r.exit
             /\ streamResult.success = r.success

\* a line that is not JSON between two identical tool calls, and the agent
\* exited with code 0
NonJsonLineBetweenToolCalls ==
  /\ streamResult.closed
  /\ streamResult.success
  /\ lastPrintedAtSpawn = << >>
  /\ handed = << ToolUseLineA, NonJsonLine, ToolUseLineA >>
  /\ printed = << [kind |-> "tool", body |-> formatToolCall("a")] >>
\* the analyzer call ended in one of the failures: the agent could not be
\* spawned, exited with a code other than 0, or printed nothing
AnalyzerFellBack ==
  \/ analyzerCall.event = "error"
  \/ analyzerCall.exitCode # 0
  \/ IF analyzerCall.analyzer = "analyzeSteps"
       THEN analyzerCall.output.empty
       ELSE /\ analyzerCall.output.changeType = << >>
            /\ analyzerCall.output.isTrivial = ""
            /\ analyzerCall.output.shortDesc = << >>

\* the record has a rationale, and it is the one of the default configuration
NotesFallback(record) ==
  /\ "reasoning" \in DOMAIN record
  /\ record.reasoning = "Default configuration - standard pipeline execution"

\* C21: an analyzer call that ended in a failure (agent not spawned, non-zero
\* exit code, empty output) resolves, never rejects, and resolves to the
\* all-defaults record: no skips, depth standard, 2 iterations for analyzeSteps;
\* change type feature and branch feature/changes for analyzeRequirement; in
\* both cases the record carries a rationale that notes the fallback.
AnalyzerFallbackIsDefaultWithRationale ==
  (resolved.settled /\ AnalyzerFellBack) =>
    /\ ~resolved.rejected
    /\ IF analyzerCall.analyzer = "analyzeSteps"
         THEN /\ ~resolved.value.skipSimplify
              /\ ~resolved.value.skipReview
              /\ ~resolved.value.skipSolid
              /\ ~resolved.value.skipTests
              /\ ~resolved.value.skipChangelog
              /\ resolved.value.reviewDepth = "standard"
              /\ resolved.value.reviewIterations = 2
         ELSE /\ resolved.value.changeType = feature
              /\ ~resolved.value.isTrivial
              /\ resolved.value.suggestedBranchName = feature \o << "/" >> \o changes
    /\ NotesFallback(resolved.value)

\* the review rounds started in this run
ReviewRounds == {k \in DOMAIN started : started[k].stage = "review"}

\* runPipeline has left step 5 of this run
PastStep5 ==
  \/ pc \in {"solid", "test", "commit", "changelog", "completed"}
  \/ "solid" \in skipped

\* C22: in a run whose review stage is not skipped the loop's bound N lies in
\* 1..3, whether it is the recommendation's or the configured count, so that
\* at least one and at most three review rounds are started.
ReviewBoundBetweenOneAndThree ==
  /\ (exitStatus = Alive /\ pc = "review") =>
       reviewIterations \in MIN_REVIEW_ITERATIONS..MAX_REVIEW_ITERATIONS
  /\ Cardinality(ReviewRounds) <= MAX_REVIEW_ITERATIONS
  /\ (PastStep5 /\ "review" \notin skipped) =>
       Cardinality(ReviewRounds) >= MIN_REVIEW_ITERATIONS

\* the value the precedence rule gives an option: the command line's if the
\* option was given, else the environment's if the variable is set, else the
\* built-in default
Effective(option, variable, envValue, default) ==
  IF option.set THEN option.value
  ELSE IF variable.set THEN envValue.value
  ELSE default

\* C23: every option of the merged configuration has the command line's value
\* if the option was given, otherwise the environment's if the variable is set,
\* otherwise the default (the allowlist only when skip-all is not configured);
\* with SF_REVIEW_ITERATIONS=3 and no --reviews option the count is 3.
ConfigPrecedence ==
  merged.present =>
    LET envConfig == loadConfigFromEnv(env)
        reviews == IF argv.reviews.set THEN Set(parseInt(argv.reviews.value)) ELSE Unset
    IN /\ merged.reviewIterations =
            Effective(reviews, env.REVIEW_ITERATIONS, envConfig.reviewIterations,
                      Number(DEFAULT_REVIEW_ITERATIONS))
       /\ merged.dryRun =
            Effective(argv.dryRun, env.DRY_RUN, envConfig.dryRun, FALSE)
       /\ merged.skipTests =
            Effective(argv.skipTests, env.SKIP_TESTS, envConfig.skipTests, FALSE)
       /\ merged.skipPush =
            Effective(argv.skipPush, env.SKIP_PUSH, envConfig.skipPush, FALSE)
       /\ merged.skipBranchManagement =
            Effective(argv.skipBranchManagement, env.SKIP_BRANCH_MANAGEMENT,
                      envConfig.skipBranchManagement, FALSE)
       /\ merged.adaptiveExecution =
            Effective(argv.adaptive, env.ADAPTIVE_EXECUTION,
                      envConfig.adaptiveExecution, FALSE)
       /\ merged.dangerouslySkipPermissions =
            Effective(argv.dangerouslySkipPermissions, env.DANGEROUSLY_SKIP_PERMISSIONS,
                      envConfig.dangerouslySkipPermissions, FALSE)
       /\ merged.logFile = orElse(argv.log, envConfig.logFile)
       /\ ~merged.dangerouslySkipPermissions =>
            merged.allowedTools =
              orElse(argv.allowedTools, orElse(envConfig.allowedTools, Set("Edit,Read,Bash")))
       /\ (env.REVIEW_ITERATIONS = Set(<< "3" >>) /\ ~argv.reviews.set) =>
            merged.reviewIterations = Number(3)

\* the arguments of the list that are the given option
ArgsNamed(option) == {k \in DOMAIN args : args[k] = << option >>}

\* the argument list ends with a prompt that ends with the exit instruction
PromptWithExitInstructionIsLast ==
  /\ args # << >>
  /\ Len(args[Len(args)]) = 2
  /\ args[Len(args)][2] = ". Once the work is completed, exit."

\* C24: when skip-all permissions is not configured, the argument list of
\* every agent invocation holds --allowedTools followed by the configured
\* allowlist, and the prompt with its exit instruction is the last argument.
AllowlistPassedToAgent ==
  (merged.present /\ args # << >> /\ ~merged.dangerouslySkipPermissions) =>
    /\ \E k \in ArgsNamed("--allowedTools") :
         /\ k < Len(args)
         /\ merged.allowedTools.set
         /\ args[k + 1] = << merged.allowedTools.value >>
    /\ PromptWithExitInstructionIsLast

\* C25: in every merged configuration skip-all permissions implies that
\* allowedTools is undefined, whatever allowlist the command line or the
\* environment supplied, and no argument list of an agent invocation holds
\* both the skip-all flag and an allowlist.
SkipAllExcludesAllowlist ==
  /\ (merged.present /\ merged.dangerouslySkipPermissions) => ~merged.allowedTools.set
  /\ ~(/\ ArgsNamed("--dangerously-skip-permissions") # {}
       /\ ArgsNamed("--allowedTools") # {})

\* skip-all was given on the command line together with an allowlist, and the
\* agent has been invoked with the skip-all flag
SkipAllGivenWithAllowlist ==
  /\ merged.present
  /\ argv.dangerouslySkipPermissions.set
  /\ argv.allowedTools.set
  /\ merged.dangerouslySkipPermissions
  /\ ArgsNamed("--dangerously-skip-permissions") = {1}
  /\ PromptWithExitInstructionIsLast

\* C26: the loop that generates a unique branch name ends with a name that
\* none of the existing local and remote branches has.
UniqueBranchNameAvoidsExisting ==
  (gitCall.fn = "generateUniqueBranchName" /\ gitOutcome.done) =>
    gitOutcome.branchName \notin gitCall.existing

\* the loop asks branchExists about one name per counter value, the suggested
\* name first and then the numbered names in increasing order
ProbesFollowTheCounter ==
  (gitCall.fn = "generateUniqueBranchName" /\ gitOutcome.done) =>
    /\ Len(gitOutcome.probes) = gitOutcome.counter
    /\ \A k \in DOMAIN gitOutcome.probes :
         gitOutcome.probes[k] = listedName(gitCall.found, k - 1)
    /\ \A j, k \in DOMAIN gitOutcome.probes :
         j # k => gitOutcome.probes[j] # gitOutcome.probes[k]

\* the suggested name and its first five numbered variants are all listed
\* without a worktree mark, and the loop has ended
SixNamesTaken ==
  /\ gitCall.fn = "generateUniqueBranchName"
  /\ gitOutcome.done
  /\ \A k \in 0..5 : localLine(listedName(gitCall.found, k)) \in gitCall.g.localLines
  /\ gitOutcome.branchName = listedName(gitCall.found, 6)

\* the characters of a command line after 'git checkout -b '
CommandNameChars == { gitOutcome.command[k] : k \in 2..Len(gitOutcome.command) }

\* C29: createBranch returns false and runs no git command for a name that is
\* empty or has a character other than a letter, a digit, '/', '_' or '-';
\* every command it runs carries characters of that set only.
CreateBranchRejectsUnsafeNames ==
  (gitCall.fn = "createBranch" /\ gitOutcome.done) =>
    /\ (gitCall.name = << >> \/ Range(gitCall.name) \ BranchNameChars # {}) =>
         (gitOutcome.command = << >> /\ ~gitOutcome.created)
    /\ CommandNameChars \subseteq BranchNameChars

\* a name with a shell metacharacter was handed to createBranch where git
\* would have succeeded, and nothing was run
UnsafeNameRejected ==
  /\ gitCall.fn = "createBranch"
  /\ gitOutcome.done
  /\ gitCall.checkoutOk
  /\ gitCall.name = << "a", ";", "a" >>
  /\ gitOutcome.command = << >>
  /\ ~gitOutcome.created
\* stepBranchManagement has returned, or runPipeline has skipped it
BranchStageOver ==
  \/ "branch" \in skipped
  \/ \E k \in DOMAIN results : results[k].stage = "branch"

ImplementStarted == \E k \in DOMAIN started : started[k].stage = "implement"

\* the branch stage's result is still in use: the first agent of a stage has
\* not ended, or the run was a dry run
BranchResultInUse ==
  /\ BranchStageOver
  /\ config # NoConfig
  /\ lastExit.caller # "runClaude"

ProtectedBranchNames ==
  { << "m", "a", "i", "n" >>, << "m", "a", "s", "t", "e", "r" >>,
    << "d", "e", "v", "e", "l", "o", "p" >>, << "d", "e", "v" >> }

OnProtectedBranch == toLowerCase(currentBranch) \in ProtectedBranchNames

\* C27: the branch stage calls createBranch exactly when it is not skipped,
\* the run is not a dry run, the current branch is main, master, develop or
\* dev and the analysis is not trivial; for a trivial change or on another
\* branch it creates nothing and stays on the current branch; when it has
\* created a branch and the suggested name was free, the branch is named
\* <prefix>/<short description>; and the Implement stage starts.
BranchCreatedWhenCalledFor ==
  BranchResultInUse =>
    /\ (createBranchCalls # << >>) <=>
         /\ ~config.implementationOnly
         /\ ~config.skipBranchManagement
         /\ ~config.dryRun
         /\ OnProtectedBranch
         /\ analysis # NoAnalysis
         /\ ~analysis.isTrivial
    /\ ("branch" \notin skipped /\ ~config.skipBranchManagement
          /\ (~OnProtectedBranch \/ analysis.isTrivial)) =>
         /\ createBranchCalls = << >>
         /\ ~branchCreated
         /\ branchName = currentBranch
    /\ branchCreated =>
         /\ Len(createBranchCalls) = 1
         /\ createBranchCalls[1].branchName = branchName
         /\ createBranchCalls[1].command = << "git checkout -b " >> \o branchName
         /\ Len(branchProbes) = 1 =>
              branchName = analysis.branchPrefix \o << "/" >> \o analysis.shortDescription
    /\ ImplementStarted

\* on main, the branch feature/add-user-authentication has been created and
\* the Implement stage runs
SuggestedBranchCreated ==
  /\ BranchResultInUse
  /\ pc = "implement"
  /\ currentBranch = << "m", "a", "i", "n" >>
  /\ branchCreated
  /\ branchName = feature \o << "/" >> \o sanitizeDescription(AddUserAuthentication)

\* the last createBranch call of the run returned false
BranchCreationFailed == createBranchCalls # << >> /\ ~branchCreated

\* C28: when createBranch fails, the branch stage returns success with
\* branchCreated = false and the current branch, and the Implement stage
\* starts; no result of the branch stage is a failure.
BranchStageNeverFails ==
  /\ \A k \in DOMAIN results : results[k].stage = "branch" => results[k].success
  /\ (BranchResultInUse /\ BranchCreationFailed) =>
       /\ branchName = currentBranch
       /\ ImplementStarted
       /\ exitStatus = Alive

\* git has failed to create the branch and the Implement stage runs on main
ImplementAfterFailedCreation ==
  /\ BranchResultInUse
  /\ BranchCreationFailed
  /\ createBranchCalls[1].command # << >>
  /\ pc = "implement"
  /\ child = "running"
  /\ branchName = << "m", "a", "i", "n" >>
\* C30: at every moment of a run at most one agent subprocess is alive.
AtMostOneAgentAlive == agents <= 1

\* an agent runs after the previous invocation ended in a spawn 'error'
AgentRunsAfterSpawnError ==
  /\ lastExit.kind = "error"
  /\ child = "running"
  /\ agents = 1
  /\ exitStatus = Alive
\* the number of times a stage function was called in this run
TimesStarted(stage) == Cardinality({k \in DOMAIN started : started[k].stage = stage})

\* the stages a step recommendation can skip
AdaptiveStages == {"simplify", "review", "solid", "test", "changelog"}

\* the test stage has been skipped or has returned a success
CommitReached ==
  \/ "test" \in skipped
  \/ \E k \in DOMAIN results : results[k].stage = "test" /\ results[k].success

\* C31: a step recommendation skips stages among simplify, review, solid,
\* test and changelog only; Implement is called exactly once in every run that
\* is past the branch stage; Commit is called in every run that reaches it
\* unless implementation-only mode is on.
OnlyAdaptiveStagesSkipped ==
  /\ "implement" \notin skipped
  /\ TimesStarted("implement") = (IF BranchStageOver THEN 1 ELSE 0)
  /\ TimesStarted("commit") <= 1
  /\ exitStatus = Alive =>
       /\ ~config.implementationOnly => skipped \subseteq AdaptiveStages \cup {"branch"}
       /\ "commit" \in skipped => config.implementationOnly
       /\ CommitReached =>
            IF config.implementationOnly
              THEN "commit" \in skipped /\ TimesStarted("commit") = 0
              ELSE TimesStarted("commit") = 1

\* a run in which the recommendation skipped all five stages has completed
\* with Implement and Commit called
AllAdaptiveStagesSkipped ==
  /\ pc = "completed"
  /\ rec.present
  /\ AdaptiveStages \subseteq skipped
  /\ TimesStarted("implement") = 1
  /\ TimesStarted("commit") = 1
\* the texts of the text items handed to processStreamEvent so far, in order
TextsHanded ==
  LET texts == SelectSeq(handed, LAMBDA line : JSONparse(line).type = "text"
                                               /\ JSONparse(line).text # << >>)
  IN [k \in DOMAIN texts |-> JSONparse(texts[k]).text]

\* the texts on the console, in order
TextsPrinted ==
  LET texts == SelectSeq(printed, LAMBDA entry : entry.kind = "text")
  IN [k \in DOMAIN texts |-> texts[k].body]

\* C32: every text item of an assistant event is printed, one console line
\* per item and in order, also when it is identical to the text printed just
\* before it.
TextNeverDeduplicated == TextsPrinted = TextsHanded

\* the same text twice in a row, printed twice
RepeatedTextPrintedTwice ==
  /\ streamResult.closed
  /\ streamText = JoinLines(<< TextEventLine, TextEventLine >>)
  /\ handed = << toString(TextEventLine), toString(TextEventLine) >>
  /\ printed = << [kind |-> "text", body |-> << "E9" >>],
                  [kind |-> "text", body |-> << "E9" >>] >>
\* the argument list is that of the stage's agent invocation
InvocationOf(stage) ==
  /\ args # << >>
  /\ args[Len(args)][1] = stepPrompt[stage]

\* C33: the agent invocations of Implement, Simplify, Test, Commit and
\* Changelog carry no continuation flag, those of Review and SOLID carry it.
OnlyReviewAndSolidContinue ==
  \A stage \in RunClaudeStages :
    InvocationOf(stage) =>
      (ArgsNamed("-c") # {} <=> stage \in {"review", "solid"})
\* the prefixes of a suggested branch name
BranchPrefixes == {feature, fix, refactor, docs, chore}

\* C34: whatever the agent replied, the classifier's analysis has a short
\* description of at most 40 lowercase letters, digits and hyphens, and a
\* suggested branch name <prefix>/<short description>, with prefix among
\* feature, fix, refactor, docs and chore, that createBranch accepts.
AnalysisNamesAreValid ==
  (analyzerCall.analyzer = "analyzeRequirement" /\ resolved.settled) =>
    LET found == resolved.value
    IN /\ Range(found.shortDescription) \subseteq
            Range(LowerCaseLetters) \cup Range(DecimalDigits) \cup {"-"}
       /\ Len(found.shortDescription) <= 40
       /\ found.branchPrefix \in BranchPrefixes
       /\ found.suggestedBranchName =
            found.branchPrefix \o << "/" >> \o found.shortDescription
       /\ createBranch(found.suggestedBranchName, TRUE).created

\* the agent's description had a shell metacharacter, upper-case letters or
\* more than 40 characters, and the analysis came from the reply
UnsafeDescriptionSanitized ==
  /\ analyzerCall.analyzer = "analyzeRequirement"
  /\ analyzerCall.event = "close"
  /\ analyzerCall.exitCode = 0
  /\ analyzerCall.output.changeType = trivial
  /\ analyzerCall.output.shortDesc =
       << "f", "i", "x", ";", " ", "r", "m", " ", "-", "r", "f", " " >>
  /\ resolved.settled
  /\ resolved.value.suggestedBranchName =
       chore \o << "/", "f", "i", "x", "-", "r", "m", "-", "-", "r", "f" >>
\* the repository of the call without the remote branches that are none of
\* the names asked about
WithoutOtherRemotes ==
  [gitCall.g EXCEPT !.remoteLines = remoteLinesOf(gitCall.found, {})]

\* C35: the branch the stage creates and the result it returns are those it
\* would create and return in the same repository without the similar remote
\* branches: the conflicts findSimilarBranches reports change nothing.
SimilarBranchesNeverBlock ==
  (gitCall.fn = "stepBranchManagement" /\ gitOutcome.done) =>
    LET plain == branchPlacement([dryRun |-> gitCall.dryRun], gitCall.current,
                                 gitCall.found, WithoutOtherRemotes)
    IN /\ plain.conflicts = {}
       /\ gitOutcome.branchName = plain.branchName
       /\ gitOutcome.created = plain.branchCreated
       /\ gitOutcome.createBranchCalls = plain.createBranchCalls
       /\ gitOutcome.probes = plain.probes

\* two conflicts were reported and the suggested branch was created
BranchCreatedDespiteConflicts ==
  /\ gitCall.fn = "stepBranchManagement"
  /\ gitOutcome.done
  /\ Cardinality(gitOutcome.conflicts) = 2
  /\ gitOutcome.created
  /\ gitOutcome.branchName = gitCall.found.suggestedBranchName

\* the answers given with the given keys
AnswersWith(keys) ==
  { k \in DOMAIN interactiveRun.answers : interactiveRun.answers[k].key \in keys }

\* the steps started after the k-th answer
StartedAfter(k) ==
  SubSeq(interactiveRun.started, interactiveRun.answers[k].before + 1,
         Len(interactiveRun.started))

\* the step the pipeline was about to start when the k-th answer was given
StepAtPrompt(k) ==
  LET a == interactiveRun.answers[k] IN
  IF a.after \in { "implement", "review" } THEN "review" ELSE following[a.after]

\* 's' in the review loop: no further review starts and SOLID starts next
SkipInLoopEndsReviews ==
  \A k \in AnswersWith({ "s" }) :
    interactiveRun.answers[k].after = "review" =>
      /\ StartedAfter(k) # << >>
      /\ StartedAfter(k)[1] = "solid"
      /\ \A j \in DOMAIN StartedAfter(k) : StartedAfter(k)[j] # "review"

\* 's' at a prompt outside the review loop: the pipeline goes on, and not
\* with the step that was next
SkipOutsideLoopSkipsStep ==
  \A k \in AnswersWith({ "s" }) :
    interactiveRun.answers[k].after # "review" =>
      /\ StartedAfter(k) # << >>
      /\ StartedAfter(k)[1] # StepAtPrompt(k)

\* 'n' and 'q': the run has exited and no step started after the answer
QuitStartsNothing ==
  \A k \in AnswersWith({ "n", "q" }) :
    /\ interactiveRun.at = "exited"
    /\ interactiveRun.exitStatus = 0
    /\ StartedAfter(k) = << >>

\* auto mode: no prompt is shown
AutoModeNeverPrompts ==
  interactiveRun.autoMode =>
    interactiveRun.prompts = 0 /\ interactiveRun.answers = << >>

\* C36: in the interactive pipeline 's' at a prompt skips the current step,
\* or in the review loop the remaining review iterations, and the pipeline
\* goes on; 'n' and 'q' exit the pipeline without starting a later step; in
\* auto mode no prompt is shown and every confirmation continues.
ConfirmChoicesHonoured ==
  /\ SkipOutsideLoopSkipsStep
  /\ SkipInLoopEndsReviews
  /\ QuitStartsNothing
  /\ AutoModeNeverPrompts

\* C37: if every spawned agent process eventually exits and the existing
\* branches are finitely many, every run of runPipeline eventually ends,
\* with exactly one of the exit statuses 0 (completion), 1 (failure) and
\* 130 (interrupted), which then stays; status 0 is the end of a run that
\* showed the completion message.
EveryRunEnds ==
  /\ (pc # "idle") ~> (pc = "exited" /\ exitStatus \in { 0, 1, 130 })
  /\ [][exitStatus # Alive => exitStatus' = exitStatus]_vars
  /\ [](exitStatus = 0 => completionShown)

\* a run went through both review iterations, completed and ended with status 0
RunEndedAfterReviews ==
  /\ pc = "exited"
  /\ exitStatus = 0
  /\ TimesStarted("review") = 2
  /\ completionShown

\* the review rounds whose result reported no issues
RoundsWithoutIssues ==
  { k \in DOMAIN results : results[k].stage = "review" /\ results[k].noIssuesFound }

\* C38: in a dry run whose review stage is not skipped the review loop runs
\* all its iterations: the synthetic success carries an empty output, so
\* noIssuesFound is never true and the early exit is never taken.
DryRunReviewsEveryIteration ==
  (exitStatus = Alive /\ pc = "completed" /\ config.dryRun /\ "review" \notin skipped) =>
    /\ TimesStarted("review") = reviewIterations
    /\ RoundsWithoutIssues = {}

\* a dry run completed after the largest configured number of review rounds
DryRunWentThroughAllReviews ==
  /\ exitStatus = Alive
  /\ pc = "completed"
  /\ config.dryRun
  /\ "review" \notin skipped
  /\ config.reviewIterations = MaxConfigReviews
  /\ TimesStarted("review") = MaxConfigReviews

\* the line handed last is the first tool_use event of the invocation
FirstToolUseJustHanded ==
  /\ handed # << >>
  /\ Events[Len(handed)].type = "tool_use"
  /\ \A j \in 1..(Len(handed) - 1) : Events[j].type # "tool_use"

\* the summary of the line handed last is the last thing on the console
LastSummaryPrinted ==
  /\ printed # << >>
  /\ Last(printed) =
       [kind |-> "tool", body |-> formatToolCall(Events[Len(handed)].name)]

\* C39: the dedup memory of one invocation never suppresses output of a later
\* one: the first tool summary of every invocation is printed, even when it
\* equals the last summary printed by the previous invocation, whether or not
\* the stream begins with a session-init event.
FirstSummaryAlwaysPrinted == FirstToolUseJustHanded => LastSummaryPrinted

\* the same for the invocations whose stream begins with a session-init event
FirstSummaryPrintedAfterInit ==
  (FirstToolUseJustHanded /\ Events[1].type = "init") => LastSummaryPrinted

\* C40: in the PTY-based adapter, after every invocation that returns, the
\* stdin 'data' listener, the resize listener and, in the variant that has
\* one, the SIGINT handler added for it are removed and stdin is out of raw
\* mode: the adapter's listeners do not grow with the invocations.
PtyListenersRemoved ==
  LET own == IF ptyAdapter.child = "running" THEN 1 ELSE 0 IN
  /\ ptyAdapter.stdinListeners = own
  /\ ptyAdapter.resizeListeners = own
  /\ ptyAdapter.sigintListeners =
       (IF ptyAdapter.variant = "sigint" THEN own ELSE 0)
  /\ ptyAdapter.child = "none" => ~ptyAdapter.rawMode

\* every invocation ran the agent on a terminal and returned, a failure
\* among them
AllPtyInvocationsReturned ==
  /\ ptyAdapter.isTTY
  /\ ptyAdapter.variant = "sigint"
  /\ ptyAdapter.child = "none"
  /\ ptyAdapter.invocations = MaxPtyInvocations
  /\ Len(ptyAdapter.returned) = MaxPtyInvocations
  /\ \E k \in DOMAIN ptyAdapter.returned : ~ptyAdapter.returned[k]

====
